---- MODULE Spec2Model ----
(***************************************************************************)
(* QSPI simple filesystem (QSPISimpleFS example): the allocation table     *)
(* kept in block 0 of a raw flash, the first-fit block allocator, and the  *)
(* create / read / delete / format / mount operations, over a flash whose  *)
(* erase resets a whole sector to 0xFF and whose write can only clear      *)
(* bits.  Every uint32_t is kept as its four little-endian bytes, which is *)
(* also its image on the flash (the table is written as raw memory).       *)
(***************************************************************************)
EXTENDS Integers, Sequences, FiniteSets, TLC

(***************************************************************************)
(* Program constants.                                                      *)
(***************************************************************************)
QSPI_FS_MAX_FILES == 16
QSPI_FS_MAGIC == 1364411987
NAME_FIELD == 32
max_trackable == 512
VALID == 255

(***************************************************************************)
(* Bounds of the model.  BlockBytes stands for QSPI_FS_BLOCK_SIZE: the     *)
(* block is scaled down so that a file's bytes can be enumerated.          *)
(***************************************************************************)
BlockBytes == 2
DeviceSectors == 2
MaxSectorBlocks == 2

QSPI_FS_BLOCK_SIZE == BlockBytes

(***************************************************************************)
(* uint32_t as four little-endian bytes.                                   *)
(***************************************************************************)
Byte == 0..255
U32(n) == << n % 256, (n \div 256) % 256, (n \div 65536) % 256, (n \div 16777216) % 256 >>
Small(u) == u[4] < 128
Val(u) == u[1] + 256 * u[2] + 65536 * u[3] + 16777216 * u[4]
U32Add(a, b) ==
  LET s1 == a[1] + b[1]
      s2 == a[2] + b[2] + (s1 \div 256)
      s3 == a[3] + b[3] + (s2 \div 256)
      s4 == a[4] + b[4] + (s3 \div 256)
  IN  << s1 % 256, s2 % 256, s3 % 256, s4 % 256 >>
U32Sub(a, b) ==
  LET s1 == a[1] + (255 - b[1]) + 1
      s2 == a[2] + (255 - b[2]) + (s1 \div 256)
      s3 == a[3] + (255 - b[3]) + (s2 \div 256)
      s4 == a[4] + (255 - b[4]) + (s3 \div 256)
  IN  << s1 % 256, s2 % 256, s3 % 256, s4 % 256 >>
U32Lt(a, b) ==
  \/ a[4] < b[4]
  \/ a[4] = b[4] /\ a[3] < b[3]
  \/ a[4] = b[4] /\ a[3] = b[3] /\ a[2] < b[2]
  \/ a[4] = b[4] /\ a[3] = b[3] /\ a[2] = b[2] /\ a[1] < b[1]
\* a / d for a small divisor d (long division from the top byte)
U32Div(a, d) ==
  LET c4 == a[4]
      c3 == (c4 % d) * 256 + a[3]
      c2 == (c3 % d) * 256 + a[2]
      c1 == (c2 % d) * 256 + a[1]
  IN  << c1 \div d, c2 \div d, c3 \div d, c4 \div d >>
\* a % d for a small divisor d
U32Rem(a, d) ==
  LET c3 == ((a[4] % d) * 256) + a[3]
      c2 == ((c3 % d) * 256) + a[2]
      c1 == ((c2 % d) * 256) + a[1]
  IN  c1 % d
ZERO32 == U32(0)
ONES32 == << 255, 255, 255, 255 >>

Min(a, b) == IF a < b THEN a ELSE b

RECURSIVE BitAnd(_, _)
BitAnd(a, b) ==
  IF a = 255 THEN b
  ELSE IF b = 255 THEN a
  ELSE IF a = 0 \/ b = 0 THEN 0
  ELSE (a % 2) * (b % 2) + 2 * BitAnd(a \div 2, b \div 2)

(***************************************************************************)
(* State.  fat, sector_size, fs_initialized and last_erased_sector are the *)
(* program's globals (last_erased_sector is the function-local static of   *)
(* createFile); flash is the device: the table record held in block 0, the *)
(* bytes of the data blocks, and the geometry; last is the most recent     *)
(* call and what it returned; tasks holds, for each thread of the client,  *)
(* the createFile call it is in: the step it has reached and the locals of *)
(* the call; part is the state of the partitioning sketch: its globals,   *)
(* the bytes of its device and its most recent call.                       *)
(***************************************************************************)
VARIABLES fat, sector_size, fs_initialized, last_erased_sector, flash, last, tasks, part

vars == << fat, sector_size, fs_initialized, last_erased_sector, flash, last, tasks, part >>

Slots == 0..(QSPI_FS_MAX_FILES - 1)

\* A name field char name[NAME_FIELD] is kept as its bytes up to the last byte
\* that is not NUL (the bytes after it are all NUL); NameByte gives byte i.
NameByte(field, i) == IF i <= Len(field) THEN field[i] ELSE 0
RECURSIVE Strip(_)
Strip(bytes) ==
  IF Len(bytes) > 0 /\ bytes[Len(bytes)] = 0 THEN Strip(SubSeq(bytes, 1, Len(bytes) - 1))
  ELSE bytes

\* struct FileEntry / struct FileAllocationTable, as memory images
ZeroEntry ==
  [ name |-> << >>, size |-> ZERO32, start_block |-> ZERO32,
    block_count |-> ZERO32, valid |-> 0, reserved |-> << 0, 0, 0 >> ]
ZeroFAT ==
  [ magic |-> ZERO32, version |-> ZERO32, total_blocks |-> ZERO32, used_blocks |-> ZERO32,
    files |-> [i \in Slots |-> ZeroEntry], checksum |-> ZERO32 ]
ErasedEntry ==
  [ name |-> [i \in 1..NAME_FIELD |-> 255], size |-> ONES32, start_block |-> ONES32,
    block_count |-> ONES32, valid |-> 255, reserved |-> << 255, 255, 255 >> ]
ErasedFAT ==
  [ magic |-> ONES32, version |-> ONES32, total_blocks |-> ONES32, used_blocks |-> ONES32,
    files |-> [i \in Slots |-> ErasedEntry], checksum |-> ONES32 ]

\* Calculate FAT checksum (sum is the uint32_t held after the entries before
\* entry i: its four bytes are worked out before the next entry is added)
RECURSIVE SumEntries(_, _, _)
SumEntries(f, i, sum) ==
  IF i >= QSPI_FS_MAX_FILES \/ Len(sum) # 4 THEN sum
  ELSE SumEntries(f, i + 1, U32Add(U32Add(sum, f.files[i].size), f.files[i].start_block))
calculateChecksum(f) ==
  SumEntries(f, 0,
    U32Add(U32Add(U32Add(U32Add(ZERO32, f.magic), f.version), f.total_blocks), f.used_blocks))

(***************************************************************************)
(* The flash device behind QSPI.read / QSPI.write / QSPI.erase.  Block 0   *)
(* holds the table record; the bytes of the data blocks are kept one by    *)
(* one.  An erase sets every byte of the range to 0xFF, a write can only   *)
(* clear bits (the byte becomes old AND new), so it stores the data        *)
(* faithfully only on erased bytes.  A call outside the device fails and   *)
(* changes nothing.  A call that fails on the device has done nothing or   *)
(* was carried out in part (a write up to its last byte or field, an erase *)
(* of the whole range).  The parameter b tells whether the device may fail *)
(* a call (b > 0) or carries out every call in range (b = 0).              *)
(***************************************************************************)
getSectorSize(fl) == fl.sectorBlocks * BlockBytes
getFlashSize(fl) == fl.sectors * fl.sectorBlocks * BlockBytes
InRange(fl, addr, len) == addr >= 0 /\ addr + len <= getFlashSize(fl)

AndU32(a, b) == [i \in 1..4 |-> BitAnd(a[i], b[i])]
AndEntry(a, b) ==
  [ name |-> Strip([i \in 1..NAME_FIELD |->
                     BitAnd(NameByte(a.name, i), NameByte(b.name, i))]),
    size |-> AndU32(a.size, b.size), start_block |-> AndU32(a.start_block, b.start_block),
    block_count |-> AndU32(a.block_count, b.block_count), valid |-> BitAnd(a.valid, b.valid),
    reserved |-> [i \in 1..3 |-> BitAnd(a.reserved[i], b.reserved[i])] ]
\* the record rec written over the record old; parts: 0 nothing, 2 all but the
\* last field (the checksum), 3 the whole record
ProgramAT(old, rec, parts) ==
  LET new == IF old = ErasedFAT THEN rec
             ELSE [ magic |-> AndU32(old.magic, rec.magic),
                    version |-> AndU32(old.version, rec.version),
                    total_blocks |-> AndU32(old.total_blocks, rec.total_blocks),
                    used_blocks |-> AndU32(old.used_blocks, rec.used_blocks),
                    files |-> [i \in Slots |-> AndEntry(old.files[i], rec.files[i])],
                    checksum |-> AndU32(old.checksum, rec.checksum) ]
  IN  IF parts = 0 THEN old
      ELSE IF parts = 2 THEN [ new EXCEPT !.checksum = old.checksum ]
      ELSE new

Erased(fl, addr, len) ==
  [ fl EXCEPT !.at = IF addr = 0 /\ len > 0 THEN ErasedFAT ELSE @,
              !.data = [a \in DOMAIN @ |-> IF addr <= a /\ a < addr + len THEN 255 ELSE @[a]] ]
\* the first n bytes of bytes programmed at addr (addr lies in a data block)
Programmed(fl, addr, bytes, n) ==
  [ fl EXCEPT !.data = [a \in DOMAIN @ |->
       IF addr <= a /\ a < addr + n THEN BitAnd(@[a], bytes[a - addr + 1]) ELSE @[a]] ]

\* QSPI.erase(addr, len): the outcomes the device can produce
QSPI_erase(fl, addr, len, b) ==
  IF ~InRange(fl, addr, len) \/ addr % getSectorSize(fl) # 0 \/ len % getSectorSize(fl) # 0
  THEN { [ok |-> FALSE, flash |-> fl, nf |-> 0] }
  ELSE { [ok |-> TRUE, flash |-> Erased(fl, addr, len), nf |-> 0] }
       \cup (IF b > 0 THEN { [ok |-> FALSE, flash |-> fl, nf |-> 1],
                             [ok |-> FALSE, flash |-> Erased(fl, addr, len), nf |-> 1] }
             ELSE { })
\* addr + size computed in 32 bits lies within the device
InRange32(fl, addr, size) ==
  ~U32Lt(U32(getFlashSize(fl)), U32Add(U32(addr), size))
\* QSPI.write(addr, data, size) into the data blocks.  The wrapper hands addr
\* and size to the driver unchecked.  When size is the length of the buffer the
\* range is checked as it stands.  When size is more than the buffer holds, the
\* driver refuses the range, or accepts it where its check of addr + size in 32
\* bits passes; then the bytes of the buffer are programmed as far as the
\* device reaches.
QSPI_write(fl, addr, bytes, size, b) ==
  IF addr < BlockBytes THEN { [ok |-> FALSE, flash |-> fl, nf |-> 0] }
  ELSE IF size # U32(Len(bytes))
  THEN { [ok |-> FALSE, flash |-> fl, nf |-> 0] }
       \cup (IF InRange32(fl, addr, size) /\ addr < getFlashSize(fl)
             THEN { [ok |-> TRUE, nf |-> 0,
                     flash |-> Programmed(fl, addr, bytes,
                                          Min(Len(bytes), getFlashSize(fl) - addr))] }
             ELSE { })
  ELSE IF ~InRange(fl, addr, Len(bytes))
  THEN { [ok |-> FALSE, flash |-> fl, nf |-> 0] }
  ELSE { [ok |-> TRUE, flash |-> Programmed(fl, addr, bytes, Len(bytes)), nf |-> 0] }
       \cup (IF b > 0
             THEN { [ok |-> FALSE, flash |-> fl, nf |-> 1] }
                  \cup { [ok |-> FALSE, flash |-> Programmed(fl, addr, bytes, n), nf |-> 1] :
                           n \in { Len(bytes) - 1 } \cap Nat }
             ELSE { })
\* QSPI.write(0, &fat, sizeof(fat))
QSPI_writeAT(fl, rec, b) ==
  { [ok |-> TRUE, flash |-> [fl EXCEPT !.at = ProgramAT(@, rec, 3)], nf |-> 0] }
  \cup (IF b > 0 THEN { [ok |-> FALSE, flash |-> [fl EXCEPT !.at = ProgramAT(@, rec, parts)],
                          nf |-> 1] : parts \in { 0, 2 } }
        ELSE { })
\* QSPI.read(addr, buffer, size) from the data blocks: the bytes delivered
QSPI_read(fl, addr, n, b) ==
  IF ~InRange(fl, addr, n) \/ (n > 0 /\ addr < BlockBytes)
  THEN { [ok |-> FALSE, bytes |-> << >>, nf |-> 0] }
  ELSE { [ok |-> TRUE, bytes |-> [i \in 1..n |-> fl.data[addr + i - 1]], nf |-> 0] }
       \cup (IF b > 0 THEN { [ok |-> FALSE, bytes |-> << >>, nf |-> 1] } ELSE { })
\* QSPI.read(0, &fat, sizeof(fat))
QSPI_readAT(fl, f, b) ==
  { [ok |-> TRUE, fat |-> fl.at, nf |-> 0] }
  \cup (IF b > 0 THEN { [ok |-> FALSE, fat |-> f, nf |-> 1] } ELSE { })

(***************************************************************************)
(* The filesystem functions.  Each takes the globals it reads and returns  *)
(* the set of outcomes the call can have, one per way the device calls it  *)
(* issues can end: the globals and the flash afterwards, the result (the   *)
(* return statement taken), the device calls issued and the number of      *)
(* device faults met (nf).                                                 *)
(***************************************************************************)
\* the line loadFAT prints before it returns on a checksum mismatch
ChecksumWarning == "Warning: Filesystem checksum mismatch!"
SizeofFAT == 16 + QSPI_FS_MAX_FILES * (NAME_FIELD + 16) + 4
Call(what, addr, len, ok) == [call |-> what, addr |-> addr, len |-> len, ok |-> ok]

\* Faulty variant of loadFAT: the checksum is not verified
loadFAT_NoChecksum(f, fl, b) ==
  { IF ~r.ok
      THEN [fat |-> r.fat, result |-> "DeviceReadFailed", nf |-> r.nf, msg |-> "",
            calls |-> << Call("read", 0, SizeofFAT, FALSE) >>]
    ELSE IF r.fat.magic # U32(QSPI_FS_MAGIC)
      THEN [fat |-> r.fat, result |-> "InvalidFilesystem", nf |-> r.nf, msg |-> "",
            calls |-> << Call("read", 0, SizeofFAT, TRUE) >>]
    ELSE [fat |-> r.fat, result |-> "Ok", nf |-> r.nf, msg |-> "",
          calls |-> << Call("read", 0, SizeofFAT, TRUE) >>]
    : r \in QSPI_readAT(fl, f, b) }

\* Faulty variant of loadFAT: the checksum is verified before the magic
loadFAT_ChecksumFirst(f, fl, b) ==
  { IF ~r.ok
      THEN [fat |-> r.fat, result |-> "DeviceReadFailed", nf |-> r.nf, msg |-> "",
            calls |-> << Call("read", 0, SizeofFAT, FALSE) >>]
    ELSE IF r.fat.checksum # calculateChecksum(r.fat)
      THEN [fat |-> r.fat, result |-> "ChecksumMismatch", nf |-> r.nf,
            msg |-> ChecksumWarning,
            calls |-> << Call("read", 0, SizeofFAT, TRUE) >>]
    ELSE IF r.fat.magic # U32(QSPI_FS_MAGIC)
      THEN [fat |-> r.fat, result |-> "InvalidFilesystem", nf |-> r.nf, msg |-> "",
            calls |-> << Call("read", 0, SizeofFAT, TRUE) >>]
    ELSE [fat |-> r.fat, result |-> "Ok", nf |-> r.nf, msg |-> "",
          calls |-> << Call("read", 0, SizeofFAT, TRUE) >>]
    : r \in QSPI_readAT(fl, f, b) }

\* Faulty variant of loadFAT: a checksum field still erased is not verified
loadFAT_BlankChecksum(f, fl, b) ==
  { IF ~r.ok
      THEN [fat |-> r.fat, result |-> "DeviceReadFailed", nf |-> r.nf, msg |-> "",
            calls |-> << Call("read", 0, SizeofFAT, FALSE) >>]
    ELSE IF r.fat.magic # U32(QSPI_FS_MAGIC)
      THEN [fat |-> r.fat, result |-> "InvalidFilesystem", nf |-> r.nf, msg |-> "",
            calls |-> << Call("read", 0, SizeofFAT, TRUE) >>]
    ELSE IF r.fat.checksum # ONES32 /\ r.fat.checksum # calculateChecksum(r.fat)
      THEN [fat |-> r.fat, result |-> "ChecksumMismatch", nf |-> r.nf,
            msg |-> ChecksumWarning,
            calls |-> << Call("read", 0, SizeofFAT, TRUE) >>]
    ELSE [fat |-> r.fat, result |-> "Ok", nf |-> r.nf, msg |-> "",
          calls |-> << Call("read", 0, SizeofFAT, TRUE) >>]
    : r \in QSPI_readAT(fl, f, b) }

\* Load FAT from flash: the table is read straight into the global fat
loadFAT(f, fl, b) ==
  { IF ~r.ok
      THEN [fat |-> r.fat, result |-> "DeviceReadFailed", nf |-> r.nf, msg |-> "",
            calls |-> << Call("read", 0, SizeofFAT, FALSE) >>]
    ELSE IF r.fat.magic # U32(QSPI_FS_MAGIC)
      THEN [fat |-> r.fat, result |-> "InvalidFilesystem", nf |-> r.nf, msg |-> "",
            calls |-> << Call("read", 0, SizeofFAT, TRUE) >>]
    ELSE IF r.fat.checksum # calculateChecksum(r.fat)
      THEN [fat |-> r.fat, result |-> "ChecksumMismatch", nf |-> r.nf,
            msg |-> ChecksumWarning,
            calls |-> << Call("read", 0, SizeofFAT, TRUE) >>]
    ELSE [fat |-> r.fat, result |-> "Ok", nf |-> r.nf, msg |-> "",
          calls |-> << Call("read", 0, SizeofFAT, TRUE) >>]
    : r \in QSPI_readAT(fl, f, b) }

\* Faulty variant of saveFAT: the record is written without the erase
saveFAT_NoErase(f, fl, ss, b) ==
  LET f1 == [f EXCEPT !.checksum = calculateChecksum(f)]
  IN  { [fat |-> f1, flash |-> w.flash,
         result |-> IF w.ok THEN "Ok" ELSE "DeviceWriteFailed", nf |-> w.nf,
         calls |-> << Call("write", 0, SizeofFAT, w.ok) >>]
        : w \in QSPI_writeAT(fl, f1, b) }

\* Faulty variant of saveFAT: the record is written whatever the erase returned
saveFAT_IgnoreErase(f, fl, ss, b) ==
  LET f1 == [f EXCEPT !.checksum = calculateChecksum(f)]
  IN  UNION { { [fat |-> f1, flash |-> w.flash,
                 result |-> IF w.ok THEN "Ok" ELSE "DeviceWriteFailed", nf |-> e.nf + w.nf,
                 calls |-> << Call("erase", 0, ss, e.ok), Call("write", 0, SizeofFAT, w.ok) >>]
                : w \in QSPI_writeAT(e.flash, f1, b) }
              : e \in QSPI_erase(fl, 0, ss, b) }

\* Faulty variant of saveFAT: the checksum field is written as it stands
saveFAT_StaleChecksum(f, fl, ss, b) ==
  UNION { IF ~e.ok
            THEN { [fat |-> f, flash |-> e.flash, result |-> "DeviceEraseFailed",
                    nf |-> e.nf, calls |-> << Call("erase", 0, ss, FALSE) >>] }
          ELSE { [fat |-> f, flash |-> w.flash,
                  result |-> IF w.ok THEN "Ok" ELSE "DeviceWriteFailed", nf |-> w.nf,
                  calls |-> << Call("erase", 0, ss, TRUE), Call("write", 0, SizeofFAT, w.ok) >>]
                 : w \in QSPI_writeAT(e.flash, f, b) }
          : e \in QSPI_erase(fl, 0, ss, b) }

\* Save FAT to flash: checksum, erase of the FAT sector, write of the record
saveFAT(f, fl, ss, b) ==
  LET f1 == [f EXCEPT !.checksum = calculateChecksum(f)]
  IN  UNION { IF ~e.ok
                THEN { [fat |-> f1, flash |-> e.flash, result |-> "DeviceEraseFailed",
                        nf |-> e.nf, calls |-> << Call("erase", 0, ss, FALSE) >>] }
              ELSE { [fat |-> f1, flash |-> w.flash,
                      result |-> IF w.ok THEN "Ok" ELSE "DeviceWriteFailed", nf |-> w.nf,
                      calls |-> << Call("erase", 0, ss, TRUE), Call("write", 0, SizeofFAT, w.ok) >>]
                     : w \in QSPI_writeAT(e.flash, f1, b) }
              : e \in QSPI_erase(fl, 0, ss, b) }

\* Find free file slot (-1: none)
RECURSIVE FreeSlotFrom(_, _)
FreeSlotFrom(f, i) ==
  IF i >= QSPI_FS_MAX_FILES THEN -1
  ELSE IF f.files[i].valid # VALID THEN i
  ELSE FreeSlotFrom(f, i + 1)
\* Faulty variant of findFreeSlot: slot 0 when no slot is free
findFreeSlot_Zero(f) == IF FreeSlotFrom(f, 0) < 0 THEN 0 ELSE FreeSlotFrom(f, 0)
findFreeSlot(f) == FreeSlotFrom(f, 0)

\* the C string held in a name field: the bytes before the first NUL
CStr(field) ==
  IF \E i \in 1..Len(field) : field[i] = 0
  THEN LET n == CHOOSE i \in 1..Len(field) : field[i] = 0 /\ \A j \in 1..(i - 1) : field[j] # 0
       IN  SubSeq(field, 1, n - 1)
  ELSE field
\* Find file by name (-1: none)
\* (Matches_AnyEntry is a faulty variant that does not test the valid flag.)
Matches_AnyEntry(f, i, name) == CStr(f.files[i].name) = name
Matches(f, i, name) == f.files[i].valid = VALID /\ CStr(f.files[i].name) = name
RECURSIVE FindFileFrom(_, _, _)
FindFileFrom(f, name, i) ==
  IF i >= QSPI_FS_MAX_FILES THEN -1
  ELSE IF Matches(f, i, name) THEN i
  ELSE FindFileFrom(f, name, i + 1)
findFile(f, name) == FindFileFrom(f, name, 0)

\* Find consecutive free blocks (0: none).  used[block] is set for block 0 and
\* for block = start_block + b, b < block_count, of every valid entry, in
\* uint32_t arithmetic and only when block < max_trackable.  (UsedBlock_TableOnly
\* is a faulty variant that marks block 0 only.)
UsedBlock_TableOnly(f, k) == k = 0
UsedBlock(f, k) ==
  \/ k = 0
  \/ \E i \in Slots : /\ f.files[i].valid = VALID
                      /\ U32Lt(U32Sub(U32(k), f.files[i].start_block), f.files[i].block_count)
\* Faulty variant of ScanLimit: the scan is not limited to max_trackable
ScanLimit_NoTrackable(f) == Val(f.total_blocks)
\* Faulty variant of ScanLimit: the scan is not limited to total_blocks
ScanLimit_NoTotal(f) == max_trackable
ScanLimit(f) ==
  IF Small(f.total_blocks) /\ Val(f.total_blocks) < max_trackable
  THEN Val(f.total_blocks) ELSE max_trackable
\* One iteration of the scan loop, on the loop's variables st (done: the break
\* was taken).  (ScanStep_NoReset is a faulty variant that does not reset
\* consecutive at a used block.)
ScanStep_NoReset(f, count, st, i) ==
  IF st.done THEN st
  ELSE IF ~UsedBlock(f, i)
    THEN LET sb == IF st.consecutive = 0 THEN i ELSE st.start_block
         IN  IF ~U32Lt(U32(st.consecutive + 1), count)
               THEN [consecutive |-> st.consecutive + 1, start_block |-> sb,
                     result |-> sb, done |-> TRUE]
             ELSE [consecutive |-> st.consecutive + 1, start_block |-> sb,
                   result |-> 0, done |-> FALSE]
    ELSE st
ScanStep(f, count, st, i) ==
  IF st.done THEN st
  ELSE IF ~UsedBlock(f, i)
    THEN LET sb == IF st.consecutive = 0 THEN i ELSE st.start_block
         IN  IF ~U32Lt(U32(st.consecutive + 1), count)
               THEN [consecutive |-> st.consecutive + 1, start_block |-> sb,
                     result |-> sb, done |-> TRUE]
             ELSE [consecutive |-> st.consecutive + 1, start_block |-> sb,
                   result |-> 0, done |-> FALSE]
    ELSE [st EXCEPT !.consecutive = 0]
\* the iterations lo .. hi - 1 of the scan loop, in order (the range is halved
\* so that a long scan is evaluated at a small depth)
RECURSIVE ScanRange(_, _, _, _, _)
ScanRange(f, count, st, lo, hi) ==
  IF lo >= hi \/ st.done THEN st
  ELSE IF hi = lo + 1 THEN ScanStep(f, count, st, lo)
  ELSE LET mid == (lo + hi) \div 2
           half == ScanRange(f, count, st, lo, mid)
       IN  ScanRange(f, count, half, mid, hi)
findFreeBlocks(f, count) ==
  ScanRange(f, count, [consecutive |-> 0, start_block |-> 1, result |-> 0, done |-> FALSE],
            1, ScanLimit(f)).result

\* strncpy(dst, name, sizeof(dst) - 1); dst[sizeof(dst) - 1] = '\0': the first
\* NAME_FIELD - 1 characters of the C string name, then NULs to the field's end
StoredName(name) == SubSeq(name, 1, Min(Len(name), NAME_FIELD - 1))

\* blocks_needed = (size + QSPI_FS_BLOCK_SIZE - 1) / QSPI_FS_BLOCK_SIZE
\* (BlocksNeededAt_Floor is a faulty variant that rounds down.)
BlocksNeededAt_Floor(size, block_size) == U32Div(size, block_size)
\* (BlocksNeededAt_AtLeastOne is a faulty variant that gives an empty file one
\* block.)
BlocksNeededAt_AtLeastOne(size, block_size) ==
  IF U32Div(U32Add(size, U32(block_size - 1)), block_size) = ZERO32 THEN U32(1)
  ELSE U32Div(U32Add(size, U32(block_size - 1)), block_size)
BlocksNeededAt(size, block_size) == U32Div(U32Add(size, U32(block_size - 1)), block_size)
BlocksNeeded(size) == BlocksNeededAt(size, QSPI_FS_BLOCK_SIZE)

\* The erase loop of createFile from block i of the run on: a sector is erased
\* unless its address equals last_erased_sector (les); a failed erase returns.
SectorAddr(block, ss) == ((block * QSPI_FS_BLOCK_SIZE) \div ss) * ss
\* One iteration of the erase loop (block i of the run) on the loop's state st:
\* the flash, last_erased_sector, the calls issued; ~st.ok: the loop returned
EraseStep(st, i, start_block, ss, b) ==
  IF ~st.ok THEN { st }
  ELSE LET sector_addr == SectorAddr(start_block + i, ss)
       IN  IF sector_addr # st.les
           THEN { IF e.ok
                    THEN [ok |-> TRUE, flash |-> e.flash, les |-> sector_addr, nf |-> 0,
                          calls |-> Append(st.calls, Call("erase", sector_addr, ss, TRUE))]
                  ELSE [ok |-> FALSE, flash |-> e.flash, les |-> st.les, nf |-> e.nf,
                        calls |-> Append(st.calls, Call("erase", sector_addr, ss, FALSE))]
                  : e \in QSPI_erase(st.flash, sector_addr, ss, b) }
           ELSE { st }
\* the iterations lo .. hi - 1 of the erase loop, in order, on each state of S
\* (the range is halved so that a long run is evaluated at a small depth)
RECURSIVE EraseRange(_, _, _, _, _, _)
EraseRange(S, lo, hi, start_block, ss, b) ==
  IF lo >= hi \/ S = { } THEN S
  ELSE IF hi = lo + 1 THEN UNION { EraseStep(st, lo, start_block, ss, b) : st \in S }
  ELSE LET mid == (lo + hi) \div 2
           half == EraseRange(S, lo, mid, start_block, ss, b)
       IN  EraseRange(half, mid, hi, start_block, ss, b)
EraseLoop(i, n, start_block, ss, les, fl, calls, b) ==
  EraseRange({ [ok |-> TRUE, flash |-> fl, les |-> les, calls |-> calls, nf |-> 0] },
             i, n, start_block, ss, b)

\* Update FAT: the slot is populated and used_blocks raised
UpdateFAT(f, slot, name, size, start_block, blocks_needed) ==
  [ f EXCEPT !.files[slot].name = StoredName(name),
             !.files[slot].size = size,
             !.files[slot].start_block = U32(start_block),
             !.files[slot].block_count = blocks_needed,
             !.files[slot].valid = VALID,
             !.used_blocks = U32Add(@, blocks_needed) ]

Fail(f, fl, les, result) ==
  { [fat |-> f, flash |-> fl, les |-> les, result |-> result, calls |-> << >>, nf |-> 0] }

\* the length a device call is recorded with: the size, or -1 for a size of
\* 2^31 and more
CallLen(size) == IF Small(size) THEN Val(size) ELSE -1

\* Create file, from the computation of blocks_needed on
createFileBlocks(f, fl, ss, les, name, data, size, b) ==
    LET slot == findFreeSlot(f)
        blocks_needed == BlocksNeeded(size)
        start_block == findFreeBlocks(f, blocks_needed)
    IN  IF start_block = 0 THEN Fail(f, fl, les, "OutOfSpace")
        ELSE UNION {
          IF ~e.ok
            THEN { [fat |-> f, flash |-> e.flash, les |-> e.les, result |-> "DeviceEraseFailed",
                    calls |-> e.calls, nf |-> e.nf] }
          ELSE UNION {
            LET wcalls == Append(e.calls,
                             Call("write", start_block * QSPI_FS_BLOCK_SIZE, CallLen(size), w.ok))
            IN  IF ~w.ok
                  THEN { [fat |-> f, flash |-> w.flash, les |-> e.les,
                          result |-> "DeviceWriteFailed", calls |-> wcalls, nf |-> w.nf] }
                ELSE { [fat |-> s.fat, flash |-> s.flash, les |-> e.les, result |-> s.result,
                        calls |-> wcalls \o s.calls, nf |-> s.nf]
                       : s \in saveFAT(UpdateFAT(f, slot, name, size, start_block, blocks_needed),
                                       w.flash, ss, b) }
            : w \in QSPI_write(e.flash, start_block * QSPI_FS_BLOCK_SIZE, data, size, b) }
          : e \in EraseLoop(0, Val(blocks_needed), start_block, ss, les, fl, << >>, b) }

\* Faulty variant of createFile: the free slot is looked for before the name
createFile_SlotFirst(f, fl, ss, init, les, name, data, size, b) ==
  IF ~init THEN Fail(f, fl, les, "NotMounted")
  ELSE IF findFreeSlot(f) < 0 THEN Fail(f, fl, les, "NoFreeSlot")
  ELSE IF findFile(f, name) >= 0 THEN Fail(f, fl, les, "AlreadyExists")
  ELSE createFileBlocks(f, fl, ss, les, name, data, size, b)

\* Create file
createFile(f, fl, ss, init, les, name, data, size, b) ==
  IF ~init THEN Fail(f, fl, les, "NotMounted")
  ELSE IF findFile(f, name) >= 0 THEN Fail(f, fl, les, "AlreadyExists")
  ELSE IF findFreeSlot(f) < 0 THEN Fail(f, fl, les, "NoFreeSlot")
  ELSE createFileBlocks(f, fl, ss, les, name, data, size, b)

\* Read file: min(size, buffer_size) bytes from start_block * QSPI_FS_BLOCK_SIZE;
\* ret is the bool the function returns
readFile(f, fl, init, name, buffer_size, b) ==
  IF ~init
    THEN { [result |-> "NotMounted", ret |-> FALSE, out |-> << >>, calls |-> << >>, nf |-> 0] }
  ELSE IF findFile(f, name) < 0
    THEN { [result |-> "NotFound", ret |-> FALSE, out |-> << >>, calls |-> << >>, nf |-> 0] }
  ELSE
    LET e == f.files[findFile(f, name)]
        read_size == IF U32Lt(e.size, U32(buffer_size)) THEN Val(e.size) ELSE buffer_size
        address == IF Small(e.start_block) /\ Val(e.start_block) <= max_trackable
                   THEN Val(e.start_block) * QSPI_FS_BLOCK_SIZE ELSE -1
    IN  { [result |-> IF r.ok THEN "Ok" ELSE "DeviceReadFailed", ret |-> r.ok,
           out |-> r.bytes, nf |-> r.nf,
           calls |-> << Call("read", address, read_size, r.ok) >>]
          : r \in QSPI_read(fl, address, read_size, b) }

\* Faulty variant of deleteFile: used_blocks is not lowered
deleteFile_NoAccounting(f, fl, ss, init, name, b) ==
  IF ~init
    THEN { [fat |-> f, flash |-> fl, result |-> "NotMounted", calls |-> << >>, nf |-> 0] }
  ELSE IF findFile(f, name) < 0
    THEN { [fat |-> f, flash |-> fl, result |-> "NotFound", calls |-> << >>, nf |-> 0] }
  ELSE saveFAT([f EXCEPT !.files[findFile(f, name)].valid = 0], fl, ss, b)

\* Delete file
deleteFile(f, fl, ss, init, name, b) ==
  IF ~init
    THEN { [fat |-> f, flash |-> fl, result |-> "NotMounted", calls |-> << >>, nf |-> 0] }
  ELSE IF findFile(f, name) < 0
    THEN { [fat |-> f, flash |-> fl, result |-> "NotFound", calls |-> << >>, nf |-> 0] }
  ELSE
    LET slot == findFile(f, name)
    IN  saveFAT([f EXCEPT !.used_blocks = U32Sub(@, f.files[slot].block_count),
                          !.files[slot].valid = 0], fl, ss, b)

\* Check if file exists
fileExists(f, name) == findFile(f, name) >= 0

\* Get file size (0 when no valid entry has the name)
getFileSize(f, name) ==
  IF findFile(f, name) < 0 THEN ZERO32 ELSE f.files[findFile(f, name)].size

\* List all files: the line printed for slot i (the name as a string and the
\* size), and the lines of the slots i .. QSPI_FS_MAX_FILES - 1 in the order of
\* the loop
ListLine(f, i) == [name |-> CStr(f.files[i].name), size |-> f.files[i].size]
RECURSIVE ListFrom_Backwards(_, _)
\* Faulty variant of ListFrom: the lines come out from the last slot down
ListFrom_Backwards(f, i) ==
  IF i >= QSPI_FS_MAX_FILES THEN << >>
  ELSE ListFrom_Backwards(f, i + 1)
         \o (IF f.files[i].valid = VALID THEN << ListLine(f, i) >> ELSE << >>)
RECURSIVE ListFrom(_, _)
ListFrom(f, i) ==
  IF i >= QSPI_FS_MAX_FILES THEN << >>
  ELSE (IF f.files[i].valid = VALID THEN << ListLine(f, i) >> ELSE << >>)
         \o ListFrom(f, i + 1)
NotInitialized == "Filesystem not initialized"
listFiles(f, init) ==
  IF ~init THEN [msg |-> NotInitialized, lines |-> << >>, total |-> 0]
  ELSE [msg |-> "", lines |-> ListFrom(f, 0), total |-> Len(ListFrom(f, 0))]

\* Get file count
getFileCount(f, init) ==
  IF ~init THEN 0 ELSE Cardinality({ i \in Slots : f.files[i].valid = VALID })

\* Faulty variant of FormattedFAT: the table is not cleared first
FormattedFAT_KeepFiles(fl) ==
  [ fat EXCEPT !.magic = U32(QSPI_FS_MAGIC), !.version = U32(1),
               !.total_blocks = U32(getFlashSize(fl) \div QSPI_FS_BLOCK_SIZE),
               !.used_blocks = U32(1) ]

\* Format the filesystem: the table the format writes
FormattedFAT(fl) ==
  [ ZeroFAT EXCEPT !.magic = U32(QSPI_FS_MAGIC), !.version = U32(1),
                   !.total_blocks = U32(getFlashSize(fl) \div QSPI_FS_BLOCK_SIZE),
                   !.used_blocks = U32(1) ]

(***************************************************************************)
(* The class-based variant (class SimpleFS).  Its table, its saveFAT and   *)
(* its format, delete and table update are the statements of the functions *)
(* above; its findFreeBlocks keeps the used blocks in a local array of     *)
(* BITMAP_SIZE entries and scans up to total_blocks, and its createFile    *)
(* erases the sector of every block of the run.  A read of the array at an *)
(* index of BITMAP_SIZE or more is outside the array: it yields whatever   *)
(* the memory behind it holds, given here as the set garbage of the        *)
(* indices that read as true.                                              *)
(***************************************************************************)
BITMAP_SIZE == 256

\* used[k] as the scan reads it
SimpleFS_used(f, k, garbage) == IF k < BITMAP_SIZE THEN UsedBlock(f, k) ELSE k \in garbage

\* One iteration of the scan loop; top is the highest index at which the array
\* was read
SimpleFS_ScanStep(f, count, st, i, garbage) ==
  IF st.done THEN st
  ELSE IF ~SimpleFS_used(f, i, garbage)
    THEN LET sb == IF st.consecutive = 0 THEN i ELSE st.start_block
         IN  IF ~U32Lt(U32(st.consecutive + 1), count)
               THEN [consecutive |-> st.consecutive + 1, start_block |-> sb,
                     result |-> sb, done |-> TRUE, top |-> i]
             ELSE [consecutive |-> st.consecutive + 1, start_block |-> sb,
                   result |-> 0, done |-> FALSE, top |-> i]
    ELSE [st EXCEPT !.consecutive = 0, !.top = i]
RECURSIVE SimpleFS_ScanRange(_, _, _, _, _, _)
SimpleFS_ScanRange(f, count, st, lo, hi, garbage) ==
  IF lo >= hi \/ st.done THEN st
  ELSE IF hi = lo + 1 THEN SimpleFS_ScanStep(f, count, st, lo, garbage)
  ELSE LET mid == (lo + hi) \div 2
           half == SimpleFS_ScanRange(f, count, st, lo, mid, garbage)
       IN  SimpleFS_ScanRange(f, count, half, mid, hi, garbage)
\* SimpleFS::findFreeBlocks: the start found (0: none) and top
SimpleFS_findFreeBlocks(f, count, garbage) ==
  SimpleFS_ScanRange(f, count,
    [consecutive |-> 0, start_block |-> 1, result |-> 0, done |-> FALSE, top |-> 0],
    1, Val(f.total_blocks), garbage)

\* the erase loop of SimpleFS::createFile: the sector of each block is erased
SimpleFS_EraseStep(st, i, start_block, ss, b) ==
  IF ~st.ok THEN { st }
  ELSE LET sector_addr == SectorAddr(start_block + i, ss)
       IN  { [ok |-> e.ok, flash |-> e.flash, nf |-> e.nf,
              calls |-> Append(st.calls, Call("erase", sector_addr, ss, e.ok))]
             : e \in QSPI_erase(st.flash, sector_addr, ss, b) }
RECURSIVE SimpleFS_EraseRange(_, _, _, _, _, _)
SimpleFS_EraseRange(S, lo, hi, start_block, ss, b) ==
  IF lo >= hi \/ S = { } THEN S
  ELSE IF hi = lo + 1 THEN UNION { SimpleFS_EraseStep(st, lo, start_block, ss, b) : st \in S }
  ELSE LET mid == (lo + hi) \div 2
           half == SimpleFS_EraseRange(S, lo, mid, start_block, ss, b)
       IN  SimpleFS_EraseRange(half, mid, hi, start_block, ss, b)

SimpleFS_Fail(f, fl, result, top) ==
  { [fat |-> f, flash |-> fl, result |-> result, calls |-> << >>, nf |-> 0, top |-> top] }

\* SimpleFS::createFile
SimpleFS_createFile(f, fl, ss, init, name, data, b) ==
  IF ~init THEN SimpleFS_Fail(f, fl, "NotMounted", 0)
  ELSE IF findFile(f, name) >= 0 THEN SimpleFS_Fail(f, fl, "AlreadyExists", 0)
  ELSE IF findFreeSlot(f) < 0 THEN SimpleFS_Fail(f, fl, "NoFreeSlot", 0)
  ELSE
    LET slot == findFreeSlot(f)
        size == U32(Len(data))
        blocks_needed == BlocksNeeded(size)
    IN  UNION {
          IF found.result = 0 THEN SimpleFS_Fail(f, fl, "OutOfSpace", found.top)
          ELSE UNION {
            IF ~e.ok
              THEN { [fat |-> f, flash |-> e.flash, result |-> "DeviceEraseFailed",
                      calls |-> e.calls, nf |-> e.nf, top |-> found.top] }
            ELSE UNION {
              LET wcalls == Append(e.calls,
                              Call("write", found.result * QSPI_FS_BLOCK_SIZE, Len(data), w.ok))
              IN  IF ~w.ok
                    THEN { [fat |-> f, flash |-> w.flash, result |-> "DeviceWriteFailed",
                            calls |-> wcalls, nf |-> w.nf, top |-> found.top] }
                  ELSE { [fat |-> s.fat, flash |-> s.flash, result |-> s.result,
                          calls |-> wcalls \o s.calls, nf |-> s.nf, top |-> found.top]
                         : s \in saveFAT(UpdateFAT(f, slot, name, size, found.result,
                                                   blocks_needed), w.flash, ss, b) }
              : w \in QSPI_write(e.flash, found.result * QSPI_FS_BLOCK_SIZE, data, U32(Len(data)), b) }
            : e \in SimpleFS_EraseRange({ [ok |-> TRUE, flash |-> fl, calls |-> << >>, nf |-> 0] },
                     0, Val(blocks_needed), found.result, ss, b) }
          : found \in { SimpleFS_findFreeBlocks(f, blocks_needed, garbage) :
                          garbage \in SUBSET (BITMAP_SIZE..(Val(f.total_blocks) - 1)) } }

(***************************************************************************)
(* Inputs of the calls: file names (C strings), file contents and buffer   *)
(* sizes.                                                                  *)
(***************************************************************************)
NameA == << 97 >>
NameB == << 98 >>
Names == { NameA, NameB }
\* two byte patterns whose bitwise AND differs from both
PatternByte(p, i) == IF p = 1 THEN (IF i % 2 = 1 THEN 165 ELSE 90)
                     ELSE (IF i % 2 = 1 THEN 60 ELSE 195)
Pattern(p, n) == [i \in 1..n |-> PatternByte(p, i)]
Datas == { Pattern(1, 1), Pattern(2, 1), Pattern(2, BlockBytes + 1) }
BufferSizes == { 1, BlockBytes + 2 }
\* one content per name, for the runs on a failing device
DataOf(name) == IF name = NameA THEN Pattern(1, 1) ELSE Pattern(2, BlockBytes + 1)

(***************************************************************************)
(* The partitioning sketch: a table of up to MAX_PARTITIONS partitions of  *)
(* the flash and reads, writes and erases at an offset within a partition. *)
(* Addresses, offsets and sizes are uint32_t.  call is the most recent     *)
(* call with the device calls it made (the bytes of the sketch's device    *)
(* are not kept).  The device carries out a call whose range lies within   *)
(* it, refuses one that ends beyond it, and refuses or accepts one whose   *)
(* range passes 2^32.                                                      *)
(***************************************************************************)
MAX_PARTITIONS == 8
PartitionSlots == 0..(MAX_PARTITIONS - 1)
NoPartition == [name |-> "", start_address |-> ZERO32, size |-> ZERO32]
NoPartCall == [op |-> "none", id |-> 0, offset |-> ZERO32, n |-> 0, ret |-> TRUE,
               calls |-> << >>]
NoPartitions ==
  [ partitions |-> [i \in PartitionSlots |-> NoPartition], partition_count |-> 0,
    partition_initialized |-> FALSE, flash_size |-> ZERO32, sector_size |-> 0,
    call |-> NoPartCall ]

\* the n addresses from addr on, modulo 2^32
Touched(addr, n) == { U32Add(addr, U32(k)) : k \in 0..(n - 1) }
\* addr + n passes 2^32
Wraps(addr, n) == U32Lt(U32Add(addr, U32(n)), addr)
\* what the device answers to a call on n bytes at addr
DeviceAnswers(p, addr, n) ==
  IF Wraps(addr, n) THEN { TRUE, FALSE }
  ELSE { ~U32Lt(p.flash_size, U32Add(addr, U32(n))) }
DeviceCall(what, addr, n, ok) == [call |-> what, addr |-> addr, len |-> n, ok |-> ok]

\* Initialize partition system
initPartitions(p, fl) ==
  [p EXCEPT !.flash_size = U32(getFlashSize(fl)), !.sector_size = getSectorSize(fl),
            !.partition_initialized = TRUE]

\* Check if partition is valid
isValidPartition(p, id) ==
  p.partition_initialized /\ id < p.partition_count /\ p.partitions[id].size # ZERO32

\* Check partition boundaries: offset + size > partitions[id].size, in 32 bits
checkPartitionBoundaries(p, id, offset, n) ==
  /\ isValidPartition(p, id)
  /\ ~U32Lt(p.partitions[id].size, U32Add(offset, U32(n)))

\* Validate partitions don't overlap
PartitionEnd(q) == U32Add(q.start_address, q.size)
validatePartitions(p) ==
  \A i \in 0..(p.partition_count - 1) : \A j \in (i + 1)..(p.partition_count - 1) :
    (p.partitions[i].size # ZERO32 /\ p.partitions[j].size # ZERO32)
      => \/ ~U32Lt(p.partitions[j].start_address, PartitionEnd(p.partitions[i]))
         \/ ~U32Lt(p.partitions[i].start_address, PartitionEnd(p.partitions[j]))

\* Define a new partition
definePartition(p, id, name, start_address, size) ==
  IF ~p.partition_initialized \/ id >= MAX_PARTITIONS THEN [part |-> p, ret |-> FALSE]
  ELSE IF U32Lt(p.flash_size, U32Add(start_address, size)) THEN [part |-> p, ret |-> FALSE]
  ELSE LET p1 == [p EXCEPT !.partitions[id] = [name |-> name, start_address |-> start_address,
                                               size |-> size],
                           !.partition_count = IF id >= @ THEN id + 1 ELSE @]
       IN  [part |-> p1, ret |-> validatePartitions(p1)]

\* Write data to partition / Read data from partition: the outcomes
accessPartition(p, what, id, offset, n) ==
  IF ~checkPartitionBoundaries(p, id, offset, n)
    THEN { [part |-> p, ret |-> FALSE, calls |-> << >>] }
  ELSE LET address == U32Add(p.partitions[id].start_address, offset)
       IN  { [part |-> p, ret |-> ok, calls |-> << DeviceCall(what, address, n, ok) >>]
             : ok \in DeviceAnswers(p, address, n) }
writePartition(p, id, offset, n) == accessPartition(p, "write", id, offset, n)
readPartition(p, id, offset, n) == accessPartition(p, "read", id, offset, n)

\* Erase region within partition
erasePartitionRegion(p, id, offset, n) ==
  IF ~checkPartitionBoundaries(p, id, offset, n)
    THEN { [part |-> p, ret |-> FALSE, calls |-> << >>] }
  ELSE LET address == U32Add(p.partitions[id].start_address, offset)
           aligned_address == U32Sub(address, U32(U32Rem(address, p.sector_size)))
           up == n + p.sector_size - 1
           aligned_size == (up \div p.sector_size) * p.sector_size
       IN  { [part |-> p, ret |-> ok,
              calls |-> << DeviceCall("erase", aligned_address, aligned_size, ok) >>]
             : ok \in DeviceAnswers(p, aligned_address, aligned_size) }

\* A thread of the client and the createFile call it is in: pc is the step the
\* call has reached, slot, blocks_needed and start_block are its locals
Threads == { 1, 2 }
IdleTask == [pc |-> "idle", name |-> << >>, data |-> << >>, slot |-> -1,
             blocks_needed |-> ZERO32, start_block |-> 0, result |-> "none"]
NoTasks == [t \in Threads |-> IdleTask]

NoCall == [op |-> "boot", name |-> << >>, data |-> << >>, buffer_size |-> 0,
           result |-> "Ok", out |-> << >>, calls |-> << >>, field |-> "none",
           ret |-> TRUE, msg |-> "", bitmap |-> 0, size |-> ZERO32, lines |-> << >>]

(***************************************************************************)
(* Init: the globals as the program starts (zero-initialised, the static   *)
(* last_erased_sector 0xFFFFFFFF, written -1) on an erased device of some  *)
(* sector size.                                                            *)
(***************************************************************************)
Device(sectors, sb) ==
  [ at |-> ErasedFAT,
    data |-> [a \in BlockBytes..(sectors * sb * BlockBytes - 1) |-> 255],
    sectors |-> sectors, sectorBlocks |-> sb ]
ErasedFlash(sb) == Device(DeviceSectors, sb)

Init ==
  /\ fat = ZeroFAT
  /\ sector_size = 0
  /\ fs_initialized = FALSE
  /\ last_erased_sector = -1
  /\ \E sb \in 1..MaxSectorBlocks : flash = ErasedFlash(sb)
  /\ last = NoCall
  /\ tasks = NoTasks
  /\ part = NoPartitions

\* Initialize filesystem (mount)
BeginFS(b) ==
  \E o \in loadFAT(fat, flash, b) :
    /\ sector_size' = getSectorSize(flash)
    /\ fat' = o.fat
    /\ fs_initialized' = IF o.result = "Ok" THEN TRUE ELSE fs_initialized
    /\ last' = [NoCall EXCEPT !.op = "begin", !.result = o.result, !.calls = o.calls,
                              !.ret = (o.result = "Ok"), !.msg = o.msg]
    /\ UNCHANGED << flash, last_erased_sector, tasks, part >>

\* Format the filesystem
FormatFS(b) ==
  \E o \in saveFAT(FormattedFAT(flash), flash, getSectorSize(flash), b) :
    /\ sector_size' = getSectorSize(flash)
    /\ fat' = o.fat
    /\ flash' = o.flash
    /\ fs_initialized' = IF o.result = "Ok" THEN TRUE ELSE fs_initialized
    /\ last' = [NoCall EXCEPT !.op = "format", !.result = o.result, !.calls = o.calls]
    /\ UNCHANGED << last_erased_sector, tasks, part >>

\* createFile(name, data, size): the caller passes the buffer and its size
CreateFileSized(name, data, size, b) ==
  \E o \in createFile(fat, flash, sector_size, fs_initialized, last_erased_sector,
                      name, data, size, b) :
    /\ fat' = o.fat
    /\ flash' = o.flash
    /\ last_erased_sector' = o.les
    /\ last' = [NoCall EXCEPT !.op = "create", !.name = name, !.data = data,
                              !.result = o.result, !.calls = o.calls]
    /\ UNCHANGED << sector_size, fs_initialized, tasks, part >>

\* createFile(name, data, size) with size the length of the buffer
CreateFile(name, data, b) == CreateFileSized(name, data, U32(Len(data)), b)

ReadFile(name, buffer_size, b) ==
  \E o \in readFile(fat, flash, fs_initialized, name, buffer_size, b) :
    /\ last' = [NoCall EXCEPT !.op = "read", !.name = name, !.buffer_size = buffer_size,
                              !.result = o.result, !.out = o.out, !.calls = o.calls,
                              !.ret = o.ret]
    /\ UNCHANGED << fat, flash, sector_size, fs_initialized, last_erased_sector, tasks, part >>

DeleteFile(name, b) ==
  \E o \in deleteFile(fat, flash, sector_size, fs_initialized, name, b) :
    /\ fat' = o.fat
    /\ flash' = o.flash
    /\ last' = [NoCall EXCEPT !.op = "delete", !.name = name,
                              !.result = o.result, !.calls = o.calls]
    /\ UNCHANGED << sector_size, fs_initialized, last_erased_sector, tasks, part >>

\* The queries: they read the globals and assign none
FileExists(name) ==
  /\ last' = [NoCall EXCEPT !.op = "exists", !.name = name, !.ret = fileExists(fat, name)]
  /\ UNCHANGED << fat, flash, sector_size, fs_initialized, last_erased_sector, tasks, part >>

GetFileSize(name) ==
  /\ last' = [NoCall EXCEPT !.op = "size", !.name = name, !.size = getFileSize(fat, name)]
  /\ UNCHANGED << fat, flash, sector_size, fs_initialized, last_erased_sector, tasks, part >>

ListFiles ==
  /\ last' = [NoCall EXCEPT !.op = "list", !.msg = listFiles(fat, fs_initialized).msg,
                            !.lines = listFiles(fat, fs_initialized).lines]
  /\ UNCHANGED << fat, flash, sector_size, fs_initialized, last_erased_sector, tasks, part >>

(***************************************************************************)
(* Spec: any sequence of mount, format, create, read and delete calls on a *)
(* device that carries out every call.                                     *)
(***************************************************************************)
Next ==
  \/ BeginFS(0)
  \/ FormatFS(0)
  \/ \E name \in Names, data \in Datas : CreateFile(name, data, 0)
  \/ \E name \in Names, buffer_size \in BufferSizes : ReadFile(name, buffer_size, 0)
  \/ \E name \in Names : DeleteFile(name, 0)

Spec == Init /\ [][Next]_vars

(***************************************************************************)
(* SpecFaults: any sequence of format, create and delete calls on a device *)
(* that may fail any erase or write.                                       *)
(***************************************************************************)
NextFaults ==
  \/ FormatFS(1)
  \/ \E name \in Names : CreateFile(name, DataOf(name), 1)
  \/ \E name \in Names : DeleteFile(name, 1)

SpecFaults == Init /\ [][NextFaults]_vars

(***************************************************************************)
(* SpecFaultsAll: any sequence of mount, format, create, read and delete   *)
(* calls for one file of two blocks on a device that may fail any read,    *)
(* erase or write.                                                         *)
(***************************************************************************)
NextFaultsAll ==
  \/ BeginFS(1)
  \/ FormatFS(1)
  \/ CreateFile(NameB, DataOf(NameB), 1)
  \/ ReadFile(NameB, BlockBytes + 2, 1)
  \/ DeleteFile(NameB, 1)

SpecFaultsAll == Init /\ [][NextFaultsAll]_vars

(***************************************************************************)
(* SpecFull: a client that fills the table: it creates file number k + 1   *)
(* when k files exist (the first one of one byte, the others empty) and    *)
(* deletes the file it created last, on a device that carries out every    *)
(* call; it also tries to create the first file and the next one with a    *)
(* content as large as the device.                                         *)
(***************************************************************************)
FileName(k) == << 102, 64 + k >>
NumValid == Cardinality({ i \in Slots : fat.files[i].valid = VALID })

FillData == IF NumValid = 0 THEN Pattern(1, 1) ELSE << >>

TooBig == Pattern(2, getFlashSize(flash))

NextFull ==
  \/ FormatFS(0)
  \/ CreateFile(FileName(NumValid + 1), FillData, 0)
  \/ NumValid > 0 /\ DeleteFile(FileName(NumValid), 0)
  \/ \E k \in { 1, NumValid + 1 } : CreateFile(FileName(k), TooBig, 0)

SpecFull == Init /\ [][NextFull]_vars

(***************************************************************************)
(* SpecTamper: format, create and delete calls on a device that carries    *)
(* out every call; after a successful save the persisted record may be     *)
(* corrupted in one place (a byte of the checksum field, or one other      *)
(* field); the run ends with a mount.                                      *)
(***************************************************************************)
ByteDeltas == { 1, 128, 255 }
Fields == { "magic", "version", "total_blocks", "used_blocks",
            "name", "size", "start_block", "block_count", "valid" }
BumpByte(v, d) == (v + d) % 256
BumpU32(u, d) == [u EXCEPT ![1] = BumpByte(@, d)]
BumpName(field) == IF Len(field) = 0 THEN << 1 >> ELSE [field EXCEPT ![1] = BumpByte(@, 1)]
\* the record rec with one field changed (slot i for the fields of an entry)
Corrupted(rec, fld, i) ==
  CASE fld = "magic" -> [rec EXCEPT !.magic = BumpU32(@, 1)]
    [] fld = "version" -> [rec EXCEPT !.version = BumpU32(@, 1)]
    [] fld = "total_blocks" -> [rec EXCEPT !.total_blocks = BumpU32(@, 1)]
    [] fld = "used_blocks" -> [rec EXCEPT !.used_blocks = BumpU32(@, 1)]
    [] fld = "name" -> [rec EXCEPT !.files[i].name = BumpName(@)]
    [] fld = "size" -> [rec EXCEPT !.files[i].size = BumpU32(@, 1)]
    [] fld = "start_block" -> [rec EXCEPT !.files[i].start_block = BumpU32(@, 1)]
    [] fld = "block_count" -> [rec EXCEPT !.files[i].block_count = BumpU32(@, 1)]
    [] fld = "valid" -> [rec EXCEPT !.files[i].valid = 255 - @]

Saved == last.op \in { "format", "create", "delete" } /\ last.result = "Ok"

CorruptChecksum(i, d) ==
  /\ Saved
  /\ flash' = [flash EXCEPT !.at.checksum[i] = BumpByte(@, d)]
  /\ last' = [NoCall EXCEPT !.op = "corrupt", !.field = "checksum"]
  /\ UNCHANGED << fat, sector_size, fs_initialized, last_erased_sector, tasks, part >>

CorruptField(fld, i) ==
  /\ Saved
  /\ flash' = [flash EXCEPT !.at = Corrupted(@, fld, i)]
  /\ last' = [NoCall EXCEPT !.op = "corrupt", !.field = fld]
  /\ UNCHANGED << fat, sector_size, fs_initialized, last_erased_sector, tasks, part >>

NextTamper ==
  \/ last.op \notin { "corrupt", "begin" } /\ FormatFS(0)
  \/ last.op \notin { "corrupt", "begin" } /\ \E name \in Names : CreateFile(name, DataOf(name), 0)
  \/ last.op \notin { "corrupt", "begin" } /\ \E name \in Names : DeleteFile(name, 0)
  \/ \E i \in 1..4, d \in ByteDeltas : CorruptChecksum(i, d)
  \/ \E fld \in Fields, i \in 0..1 : CorruptField(fld, i)
  \/ last.op # "begin" /\ BeginFS(0)

SpecTamper == Init /\ [][NextTamper]_vars

(***************************************************************************)
(* SpecAlloc: any sequence of format, create and delete calls on a device  *)
(* that carries out every call.                                            *)
(***************************************************************************)
NextAlloc ==
  \/ FormatFS(0)
  \/ \E name \in Names, data \in Datas : CreateFile(name, data, 0)
  \/ \E name \in Names : DeleteFile(name, 0)

SpecAlloc == Init /\ [][NextAlloc]_vars

(***************************************************************************)
(* SpecNames: format, create and delete calls with a short name, a name    *)
(* of NAME_FIELD - 1 characters and two names of NAME_FIELD characters     *)
(* that extend it, each file of one byte, on a device that carries out     *)
(* every call.                                                             *)
(***************************************************************************)
LongStem == [i \in 1..(NAME_FIELD - 1) |-> 65]
LongX == Append(LongStem, 120)
LongY == Append(LongStem, 121)
AnyNames == { NameA, LongStem, LongX, LongY }

NextNames ==
  \/ FormatFS(0)
  \/ \E name \in AnyNames : CreateFile(name, Pattern(1, 1), 0)
  \/ \E name \in AnyNames : DeleteFile(name, 0)

SpecNames == Init /\ [][NextNames]_vars

(***************************************************************************)
(* SpecScenario: format calls, creates of three files x, y and z of 5000,  *)
(* 100 and 8200 bytes and deletes of x, on a device of 1 MiB with a sector *)
(* of one block, which carries out every call.  The device has the block   *)
(* count of the 1 MiB device, and each file the length that takes as many  *)
(* of the model's blocks as its size takes blocks of RealBlockSize bytes.  *)
(***************************************************************************)
RealBlockSize == 4096
ScenarioBlocks == (1024 * 1024) \div RealBlockSize
FileX == << 120 >>
FileY == << 121 >>
FileZ == << 122 >>
ScenarioNames == { FileX, FileY, FileZ }
RealSize(name) == IF name = FileX THEN 5000 ELSE IF name = FileY THEN 100 ELSE 8200
ScaledLen(real) == (Val(BlocksNeededAt(U32(real), RealBlockSize)) - 1) * BlockBytes + 1
ScenarioData(name) == Pattern(1, ScaledLen(RealSize(name)))

InitScenario ==
  /\ fat = ZeroFAT
  /\ sector_size = 0
  /\ fs_initialized = FALSE
  /\ last_erased_sector = -1
  /\ flash = Device(ScenarioBlocks, 1)
  /\ last = NoCall
  /\ tasks = NoTasks
  /\ part = NoPartitions

NextScenario ==
  \/ FormatFS(0)
  \/ \E name \in ScenarioNames : CreateFile(name, ScenarioData(name), 0)
  \/ DeleteFile(FileX, 0)

SpecScenario == InitScenario /\ [][NextScenario]_vars

(***************************************************************************)
(* SpecTrack: format calls, creates of two files x and y and deletes of x  *)
(* on a device of two sectors with two blocks more than findFreeBlocks     *)
(* tracks, which carries out every call; a file takes one block, all the   *)
(* tracked blocks but one, or one more than the bound.                     *)
(***************************************************************************)
TrackSectorBlocks == (max_trackable + 2) \div 2
TrackNames == { FileX, FileY }
TrackCounts == { 1, max_trackable - 2, max_trackable + 1 }
\* a content that takes n blocks
BlocksData(n) == Pattern(1, (n - 1) * BlockBytes + 1)

InitTrack ==
  /\ fat = ZeroFAT
  /\ sector_size = 0
  /\ fs_initialized = FALSE
  /\ last_erased_sector = -1
  /\ flash = Device(2, TrackSectorBlocks)
  /\ last = NoCall
  /\ tasks = NoTasks
  /\ part = NoPartitions

NextTrack ==
  \/ FormatFS(0)
  \/ \E name \in TrackNames, n \in TrackCounts : CreateFile(name, BlocksData(n), 0)
  \/ DeleteFile(FileX, 0)

SpecTrack == InitTrack /\ [][NextTrack]_vars

(***************************************************************************)
(* SpecClass: the class-based variant on a device with one block more      *)
(* than its array of used blocks has entries and a sector of one block,    *)
(* which carries out every call: format calls, creates of two files x and *)
(* y of one block or of all the blocks below BITMAP_SIZE, and deletes of   *)
(* x.                                                                      *)
(***************************************************************************)
ClassCounts == { 1, BITMAP_SIZE - 1 }

InitClass ==
  /\ fat = ZeroFAT
  /\ sector_size = 0
  /\ fs_initialized = FALSE
  /\ last_erased_sector = -1
  /\ flash = Device(BITMAP_SIZE + 1, 1)
  /\ last = NoCall
  /\ tasks = NoTasks
  /\ part = NoPartitions

\* SimpleFS::format
SimpleFS_format == FormatFS(0)

SimpleFS_CreateFile(name, data, b) ==
  \E o \in SimpleFS_createFile(fat, flash, sector_size, fs_initialized, name, data, b) :
    /\ fat' = o.fat
    /\ flash' = o.flash
    /\ last' = [NoCall EXCEPT !.op = "create", !.name = name, !.data = data,
                              !.result = o.result, !.calls = o.calls, !.bitmap = o.top]
    /\ UNCHANGED << sector_size, fs_initialized, last_erased_sector, tasks, part >>

\* SimpleFS::deleteFile
SimpleFS_DeleteFile(name) == DeleteFile(name, 0)

NextClass ==
  \/ SimpleFS_format
  \/ \E name \in TrackNames, n \in ClassCounts : SimpleFS_CreateFile(name, BlocksData(n), 0)
  \/ SimpleFS_DeleteFile(FileX)

SpecClass == InitClass /\ [][NextClass]_vars

(***************************************************************************)
(* SpecRecover: format, create and delete calls on a device that carries   *)
(* out every call; after a successful save the persisted record may be     *)
(* replaced by one that carries another used_blocks and the checksum that  *)
(* goes with it; the run ends with a mount.                                *)
(***************************************************************************)
UsedValues == { 0, 1, 2, 7 }

RewriteRecord(v) ==
  /\ Saved
  /\ flash' = [flash EXCEPT !.at =
                 [@ EXCEPT !.used_blocks = U32(v),
                           !.checksum = calculateChecksum([flash.at EXCEPT !.used_blocks = U32(v)])]]
  /\ last' = [NoCall EXCEPT !.op = "rewrite", !.field = "used_blocks"]
  /\ UNCHANGED << fat, sector_size, fs_initialized, last_erased_sector, tasks, part >>

NextRecover ==
  \/ last.op \notin { "rewrite", "begin" } /\ FormatFS(0)
  \/ last.op \notin { "rewrite", "begin" } /\ \E name \in Names : CreateFile(name, DataOf(name), 0)
  \/ last.op \notin { "rewrite", "begin" } /\ \E name \in Names : DeleteFile(name, 0)
  \/ \E v \in UsedValues : RewriteRecord(v)
  \/ last.op # "begin" /\ BeginFS(0)

SpecRecover == Init /\ [][NextRecover]_vars

(***************************************************************************)
(* SpecQueries: format, create and delete calls for two names and contents *)
(* of one and two blocks, with the queries in between, on a device of one  *)
(* sector more that carries out every call.                                *)
(***************************************************************************)
QueryDatas == { Pattern(1, 1), Pattern(2, BlockBytes + 1) }

InitQueries ==
  /\ fat = ZeroFAT
  /\ sector_size = 0
  /\ fs_initialized = FALSE
  /\ last_erased_sector = -1
  /\ \E sb \in 1..MaxSectorBlocks : flash = Device(DeviceSectors + 1, sb)
  /\ last = NoCall
  /\ tasks = NoTasks
  /\ part = NoPartitions

NextQueries ==
  \/ FormatFS(0)
  \/ \E name \in Names, data \in QueryDatas : CreateFile(name, data, 0)
  \/ \E name \in Names : DeleteFile(name, 0)
  \/ \E name \in Names : FileExists(name)
  \/ \E name \in Names : GetFileSize(name)
  \/ ListFiles

SpecQueries == InitQueries /\ [][NextQueries]_vars

(***************************************************************************)
(* SpecReboot: format, create and delete calls, a restart of the program   *)
(* (its globals are back at their initial values, the device keeps what it *)
(* holds), a change of a byte of the persisted checksum, a mount, and the  *)
(* queries exists and size.                                                *)
(***************************************************************************)
Reboot ==
  /\ last.op # "reboot"
  /\ fat' = ZeroFAT
  /\ sector_size' = 0
  /\ fs_initialized' = FALSE
  /\ last_erased_sector' = -1
  /\ last' = [NoCall EXCEPT !.op = "reboot"]
  /\ UNCHANGED << flash, tasks, part >>

NextReboot ==
  \/ last.op \notin { "corrupt", "begin" } /\ FormatFS(0)
  \/ last.op \notin { "corrupt", "begin" } /\ \E name \in Names : CreateFile(name, DataOf(name), 0)
  \/ last.op \notin { "corrupt", "begin" } /\ \E name \in Names : DeleteFile(name, 0)
  \/ CorruptChecksum(1, 1)
  \/ Reboot
  \/ last.op \in { "reboot", "corrupt" } /\ BeginFS(0)
  \/ \E name \in Names : FileExists(name)
  \/ \E name \in Names : GetFileSize(name)

SpecReboot == Init /\ [][NextReboot]_vars

(***************************************************************************)
(* SpecCycle: a client that formats the blank device once and then         *)
(* creates, reads and deletes one file of two blocks again and again, on a *)
(* device of two sectors more that carries out every call.  The file is the only one, so it is always placed in    *)
(* blocks 1 and 2, and no call erases a sector above them.                 *)
(***************************************************************************)
CycleBlocks == 2
CycleDatas == { Pattern(p, n) : p \in 1..2, n \in { BlockBytes + 1, 2 * BlockBytes } }

InitCycle ==
  /\ fat = ZeroFAT
  /\ sector_size = 0
  /\ fs_initialized = FALSE
  /\ last_erased_sector = -1
  /\ \E sb \in 1..MaxSectorBlocks : flash = Device(DeviceSectors + 2, sb)
  /\ last = NoCall
  /\ tasks = NoTasks
  /\ part = NoPartitions

NextCycle ==
  \/ ~fs_initialized /\ FormatFS(0)
  \/ \E data \in CycleDatas : CreateFile(NameB, data, 0)
  \/ \E buffer_size \in BufferSizes : ReadFile(NameB, buffer_size, 0)
  \/ DeleteFile(NameB, 0)

SpecCycle == InitCycle /\ [][NextCycle]_vars

(***************************************************************************)
(* SpecThreads: two threads of the client call createFile, each for its    *)
(* own name, with nothing that serialises the calls: createFile takes no   *)
(* lock and works on the globals.  A call advances by the steps of its     *)
(* code: the entry test of fs_initialized, the lookup of the name, the     *)
(* slot search, the allocation, the erase loop, the data write, the update *)
(* of the table and the save; the steps of the two calls interleave in any *)
(* order.  The device carries out every call.  The client starts a call    *)
(* only while used_blocks is below total_blocks.                           *)
(***************************************************************************)
ThreadName(t) == IF t = 1 THEN NameA ELSE NameB

Returned(t, result) == [tasks EXCEPT ![t].pc = "done", ![t].result = result]

\* the slot the update of the table writes: the local found by the slot search
updateSlot_Fresh(f, slot) == findFreeSlot(f)
updateSlot(f, slot) == slot

\* createFile is entered: if (!fs_initialized) return false.  (The client
\* calls createFile while the filesystem reports free space.)
T_Enter(t) ==
  /\ tasks[t].pc = "idle"
  /\ fs_initialized => U32Lt(fat.used_blocks, fat.total_blocks)
  /\ tasks' = IF ~fs_initialized
                THEN Returned(t, "NotMounted")
              ELSE [tasks EXCEPT ![t] = [IdleTask EXCEPT !.pc = "lookup",
                                                        !.name = ThreadName(t),
                                                        !.data = DataOf(ThreadName(t))]]
  /\ UNCHANGED << fat, flash, sector_size, fs_initialized, last_erased_sector, last, part >>

\* Check if file already exists
T_Lookup(t) ==
  /\ tasks[t].pc = "lookup"
  /\ tasks' = IF findFile(fat, tasks[t].name) >= 0 THEN Returned(t, "AlreadyExists")
              ELSE [tasks EXCEPT ![t].pc = "slot"]
  /\ UNCHANGED << fat, flash, sector_size, fs_initialized, last_erased_sector, last, part >>

\* Find free slot
T_Slot(t) ==
  /\ tasks[t].pc = "slot"
  /\ tasks' = IF findFreeSlot(fat) < 0 THEN Returned(t, "NoFreeSlot")
              ELSE [tasks EXCEPT ![t].pc = "alloc", ![t].slot = findFreeSlot(fat)]
  /\ UNCHANGED << fat, flash, sector_size, fs_initialized, last_erased_sector, last, part >>

\* Calculate blocks needed, find free blocks
T_Alloc(t) ==
  /\ tasks[t].pc = "alloc"
  /\ LET blocks_needed == BlocksNeeded(U32(Len(tasks[t].data)))
         start_block == findFreeBlocks(fat, blocks_needed)
     IN  tasks' = IF start_block = 0 THEN Returned(t, "OutOfSpace")
                  ELSE [tasks EXCEPT ![t].pc = "erase", ![t].blocks_needed = blocks_needed,
                                     ![t].start_block = start_block]
  /\ UNCHANGED << fat, flash, sector_size, fs_initialized, last_erased_sector, last, part >>

\* Erase blocks
T_Erase(t) ==
  /\ tasks[t].pc = "erase"
  /\ \E e \in EraseLoop(0, Val(tasks[t].blocks_needed), tasks[t].start_block, sector_size,
                         last_erased_sector, flash, << >>, 0) :
       /\ flash' = e.flash
       /\ last_erased_sector' = e.les
       /\ tasks' = IF e.ok THEN [tasks EXCEPT ![t].pc = "write"]
                   ELSE Returned(t, "DeviceEraseFailed")
  /\ UNCHANGED << fat, sector_size, fs_initialized, last, part >>

\* Write data
T_Write(t) ==
  /\ tasks[t].pc = "write"
  /\ \E w \in QSPI_write(flash, tasks[t].start_block * QSPI_FS_BLOCK_SIZE, tasks[t].data,
                          U32(Len(tasks[t].data)), 0) :
       /\ flash' = w.flash
       /\ tasks' = IF w.ok THEN [tasks EXCEPT ![t].pc = "update"]
                   ELSE Returned(t, "DeviceWriteFailed")
  /\ UNCHANGED << fat, sector_size, fs_initialized, last_erased_sector, last, part >>

\* Update FAT
T_Update(t) ==
  /\ tasks[t].pc = "update"
  /\ fat' = UpdateFAT(fat, updateSlot(fat, tasks[t].slot), tasks[t].name,
                      U32(Len(tasks[t].data)), tasks[t].start_block, tasks[t].blocks_needed)
  /\ tasks' = [tasks EXCEPT ![t].pc = "save"]
  /\ UNCHANGED << flash, sector_size, fs_initialized, last_erased_sector, last, part >>

\* return saveFAT()
T_Save(t) ==
  /\ tasks[t].pc = "save"
  /\ \E o \in saveFAT(fat, flash, sector_size, 0) :
       /\ fat' = o.fat
       /\ flash' = o.flash
       /\ tasks' = Returned(t, o.result)
  /\ UNCHANGED << sector_size, fs_initialized, last_erased_sector, last, part >>

\* both calls have returned and the client has seen the results
T_Collect ==
  /\ \A t \in Threads : tasks[t].pc = "done"
  /\ tasks' = NoTasks
  /\ last' = [NoCall EXCEPT !.op = "create", !.name = tasks[2].name, !.data = tasks[2].data,
                            !.result = tasks[2].result]
  /\ UNCHANGED << fat, flash, sector_size, fs_initialized, last_erased_sector, part >>

Quiet == \A t \in Threads : tasks[t].pc = "idle"

NextThreads ==
  \/ Quiet /\ FormatFS(0)
  \/ Quiet /\ \E name \in Names : DeleteFile(name, 0)
  \/ \E t \in Threads : T_Enter(t)
  \/ \E t \in Threads : T_Lookup(t)
  \/ \E t \in Threads : T_Slot(t)
  \/ \E t \in Threads : T_Alloc(t)
  \/ \E t \in Threads : T_Erase(t)
  \/ \E t \in Threads : T_Write(t)
  \/ \E t \in Threads : T_Update(t)
  \/ \E t \in Threads : T_Save(t)
  \/ T_Collect

SpecThreads == Init /\ [][NextThreads]_vars

(***************************************************************************)
(* SpecPartitions: the partitioning sketch is initialised and then defines *)
(* partitions and writes, reads and erases within them, with ids, start    *)
(* addresses, sizes and offsets that include the largest 32-bit value.     *)
(***************************************************************************)
PartIds == { 0, 1, MAX_PARTITIONS }
PartName(id) == IF id = 0 THEN "CONFIG" ELSE "LOGGING"
PartStarts == { ZERO32, U32(part.sector_size) }
PartSizes == { ZERO32, U32(part.sector_size - 1), U32(part.sector_size), ONES32 }
PartOffsets == { ZERO32, U32(1), ONES32 }
PartLens == { 1, part.sector_size }

InitPartitions ==
  /\ ~part.partition_initialized
  /\ part' = [initPartitions(part, flash) EXCEPT !.call = [NoPartCall EXCEPT !.op = "init"]]
  /\ UNCHANGED << fat, flash, sector_size, fs_initialized, last_erased_sector, last, tasks >>

DefinePartition(id, start_address, size) ==
  /\ part.partition_initialized
  /\ LET o == definePartition(part, id, PartName(id), start_address, size)
     IN  part' = [o.part EXCEPT !.call = [NoPartCall EXCEPT !.op = "define", !.id = id,
                                                           !.ret = o.ret]]
  /\ UNCHANGED << fat, flash, sector_size, fs_initialized, last_erased_sector, last, tasks >>

WritePartition(id, offset, n) ==
  /\ part.partition_initialized
  /\ \E o \in writePartition(part, id, offset, n) :
       part' = [o.part EXCEPT !.call = [op |-> "write", id |-> id, offset |-> offset,
                                        n |-> n, ret |-> o.ret, calls |-> o.calls]]
  /\ UNCHANGED << fat, flash, sector_size, fs_initialized, last_erased_sector, last, tasks >>

ReadPartition(id, offset, n) ==
  /\ part.partition_initialized
  /\ \E o \in readPartition(part, id, offset, n) :
       part' = [o.part EXCEPT !.call = [op |-> "read", id |-> id, offset |-> offset,
                                        n |-> n, ret |-> o.ret, calls |-> o.calls]]
  /\ UNCHANGED << fat, flash, sector_size, fs_initialized, last_erased_sector, last, tasks >>

ErasePartitionRegion(id, offset, n) ==
  /\ part.partition_initialized
  /\ \E o \in erasePartitionRegion(part, id, offset, n) :
       part' = [o.part EXCEPT !.call = [op |-> "eraseRegion", id |-> id, offset |-> offset,
                                        n |-> n, ret |-> o.ret, calls |-> o.calls]]
  /\ UNCHANGED << fat, flash, sector_size, fs_initialized, last_erased_sector, last, tasks >>

NextPartitions ==
  \/ InitPartitions
  \/ \E id \in PartIds, start_address \in PartStarts, size \in PartSizes :
       DefinePartition(id, start_address, size)
  \/ \E id \in PartIds, offset \in PartOffsets, n \in PartLens : WritePartition(id, offset, n)
  \/ \E id \in PartIds, offset \in PartOffsets, n \in PartLens : ReadPartition(id, offset, n)
  \/ \E id \in PartIds, offset \in PartOffsets, n \in PartLens :
       ErasePartitionRegion(id, offset, n)

SpecPartitions == Init /\ [][NextPartitions]_vars

(***************************************************************************)
(* Creates whose size argument is the length of the buffer or one of the   *)
(* sizes for which size + QSPI_FS_BLOCK_SIZE - 1 passes 2^32.              *)
(***************************************************************************)
WrapSizes == { U32Sub(ZERO32, U32(k)) : k \in 1..(QSPI_FS_BLOCK_SIZE - 1) }
SizeChoices(data) == { U32(Len(data)) } \cup WrapSizes

NextSizes ==
  \/ FormatFS(0)
  \/ \E name \in Names : \E size \in SizeChoices(DataOf(name)) :
       CreateFileSized(name, DataOf(name), size, 0)
  \/ \E name \in Names : DeleteFile(name, 0)

SpecSizes == Init /\ [][NextSizes]_vars

(***************************************************************************)
(* Properties.                                                             *)
(***************************************************************************)
Prefix(bytes, n) == SubSeq(bytes, 1, Min(Len(bytes), n))
Formatted == fat.magic = U32(QSPI_FS_MAGIC)
ValidSlots == { i \in Slots : fat.files[i].valid = VALID }
\* the blocks [start_block, start_block + block_count) of the entry in slot i
Blocks(i) ==
  Val(fat.files[i].start_block) ..
    (Val(fat.files[i].start_block) + Val(fat.files[i].block_count) - 1)
RECURSIVE SumBlockCounts(_)
SumBlockCounts(i) ==
  IF i >= QSPI_FS_MAX_FILES THEN 0
  ELSE (IF i \in ValidSlots THEN Val(fat.files[i].block_count) ELSE 0) + SumBlockCounts(i + 1)
DeviceFailures == { "DeviceEraseFailed", "DeviceWriteFailed" }

\* C1 (round trip): a read of a name issued right after the successful
\* create of that name succeeds and delivers the first
\* min(len(bytes), len(buf)) bytes of the content given to the create,
\* whatever the sector size of the device.
C1_RoundTrip ==
  [][(/\ last.op = "create" /\ last.result = "Ok"
      /\ last'.op = "read" /\ last'.name = last.name)
     => (/\ last'.result = "Ok"
         /\ last'.out = Prefix(last.data, last'.buffer_size))]_vars

\* C2 (reuse after delete): on a device whose sector is one block, when a
\* successful delete of a name is followed by a successful create of the same
\* name, a read of the name returns the new content, never the old one or a
\* mixture.
C2_ReuseAfterDelete ==
  [][(/\ getSectorSize(flash) = QSPI_FS_BLOCK_SIZE
      /\ last.op = "delete" /\ last.result = "Ok"
      /\ last'.op = "create" /\ last'.name = last.name /\ last'.result = "Ok")
     => \A n \in BufferSizes :
          \A o \in readFile(fat', flash', fs_initialized', last'.name, n, 0) :
            o.result = "Ok" /\ o.out = Prefix(last'.data, n)]_vars

\* C3 (no overlap): once the table is formatted, whatever create and delete
\* calls succeeded or failed, two distinct valid entries share no block and no
\* valid entry holds block 0.
C3_NoOverlap ==
  Formatted =>
    /\ \A i \in ValidSlots : \A j \in ValidSlots \ { i } : Blocks(i) \cap Blocks(j) = { }
    /\ \A i \in ValidSlots : 0 \notin Blocks(i)
\* a create has just added a second file with blocks
C3_Witness ==
  /\ Formatted
  /\ last.op = "create" /\ last.result = "Ok"
  /\ \E i \in ValidSlots : \E j \in ValidSlots \ { i } : Blocks(i) # { } /\ Blocks(j) # { }

\* C4 (accounting): once the table is formatted, whatever create and delete
\* calls succeeded or failed (a failed save of the table included), the
\* in-memory used_blocks is 1 plus the block_count of the valid entries.
C4_Accounting ==
  Formatted => fat.used_blocks = U32(1 + SumBlockCounts(0))
\* a create whose save of the table failed left its entry in memory
C4_Witness ==
  /\ last.op = "create" /\ last.result \in DeviceFailures
  /\ findFile(fat, last.name) >= 0
  /\ fat.used_blocks # U32(1)

\* C7 (bounded failure of create): when an erase or a write of create's data
\* phase fails (the create fails and the slot is not populated), the table
\* record on the flash is what it was before the call.
C7_DataPhaseFailureKeepsTable ==
  [][(/\ last'.op = "create" /\ last'.result \in DeviceFailures
      /\ fat' = fat)
     => flash'.at = flash.at]_vars

\* C9 (persistence idempotence): a mount issued right after a format, create
\* or delete that saved the table succeeds and loads a table equal to the
\* saved one in every field.
C9_SaveThenLoad ==
  [][(/\ last.op \in { "format", "create", "delete" } /\ last.result = "Ok"
      /\ last'.op = "begin")
     => (last'.result = "Ok" /\ fat' = fat)]_vars
\* a mount has reloaded a table that holds a file and a deleted entry
C9_Witness ==
  /\ last.op = "begin" /\ last.result = "Ok"
  /\ ValidSlots # { }
  /\ \E i \in Slots : i \notin ValidSlots /\ fat.files[i].name # << >>

\* C5 (slot capacity): a create of a new name issued while all
\* QSPI_FS_MAX_FILES slots are valid fails NoFreeSlot, leaves the table in
\* memory and the flash as they were, and issues no device call.
C5_NoFreeSlot ==
  [][(/\ fs_initialized /\ ValidSlots = Slots
      /\ last'.op = "create" /\ findFile(fat, last'.name) < 0)
     => (/\ last'.result = "NoFreeSlot"
         /\ fat' = fat /\ flash' = flash
         /\ last'.calls = << >>)]_vars
\* the create of a seventeenth file has failed on a full table
C5_Witness ==
  /\ ValidSlots = Slots
  /\ last.op = "create" /\ last.result = "NoFreeSlot"
  /\ last.name = FileName(QSPI_FS_MAX_FILES + 1)

C8_ChecksumByteDetected ==
  [][(/\ last.op = "corrupt" /\ last.field = "checksum"
      /\ last'.op = "begin")
     => (/\ last'.result = "ChecksumMismatch"
         /\ fs_initialized' = fs_initialized)]_vars
\* a mount has rejected a record, holding a file, whose checksum differs
\* from the computed one in its top byte only
C8_Witness ==
  /\ last.op = "begin" /\ last.result = "ChecksumMismatch"
  /\ ValidSlots # { }
  /\ fat.checksum[4] # calculateChecksum(fat)[4]
  /\ \A i \in 1..3 : fat.checksum[i] = calculateChecksum(fat)[i]

\* C10 (checksum coverage): a mount that follows the change of one field
\* other than the checksum of the saved record (a header field, or the name,
\* size, start_block, block_count or valid flag of a slot), the checksum
\* field left as saved, does not accept the record.
C10_EveryFieldCovered ==
  [][(/\ last.op = "corrupt" /\ last.field # "checksum"
      /\ last'.op = "begin")
     => last'.result # "Ok"]_vars

\* C11 (load outcome and order of checks): a mount whose read of the record
\* succeeds fails InvalidFilesystem when the persisted magic is not the magic
\* constant, whatever the checksum; fails ChecksumMismatch, with the warning
\* printed, when the magic matches and the stored checksum differs from the
\* computed one; succeeds otherwise.  The invalid-magic return prints nothing,
\* which tells the two failures apart.
C11_LoadOutcome ==
  last.op = "begin" =>
    /\ last.calls = << Call("read", 0, SizeofFAT, TRUE) >>
    /\ IF flash.at.magic # U32(QSPI_FS_MAGIC)
         THEN last.result = "InvalidFilesystem" /\ last.msg = ""
       ELSE IF flash.at.checksum # calculateChecksum(flash.at)
         THEN last.result = "ChecksumMismatch" /\ last.msg = ChecksumWarning
       ELSE last.result = "Ok"
    /\ last.ret = (last.result = "Ok")
\* a mount has rejected a saved record whose magic was changed and whose
\* checksum therefore no longer matches either
C11_Witness ==
  /\ last.op = "begin" /\ last.result = "InvalidFilesystem"
  /\ flash.at.version = U32(1)
  /\ flash.at.magic # U32(QSPI_FS_MAGIC)
  /\ flash.at.checksum # calculateChecksum(flash.at)

\* C12 (mount state after a failed load): after a mount that failed, no
\* filesystem is mounted, even if one was mounted before.
C12_FailedMountUnmounts ==
  (last.op = "begin" /\ last.result # "Ok") => ~fs_initialized

\* C13 (order of create's checks): on a mounted filesystem a create fails
\* AlreadyExists when a valid entry has the name, whatever the free slots and
\* free blocks; else fails NoFreeSlot when no slot is free, whatever the free
\* blocks; it fails OutOfSpace only when the name is new and a slot is free.
\* Each of the three failures leaves the table in memory and the flash (the
\* persisted table and the data blocks) as they were.
C13_CreateCheckOrder ==
  [][(fs_initialized /\ last'.op = "create")
     => (/\ findFile(fat, last'.name) >= 0 => last'.result = "AlreadyExists"
         /\ (findFile(fat, last'.name) < 0 /\ findFreeSlot(fat) < 0)
              => last'.result = "NoFreeSlot"
         /\ last'.result = "OutOfSpace"
              => (findFile(fat, last'.name) < 0 /\ findFreeSlot(fat) >= 0)
         /\ last'.result \in { "AlreadyExists", "NoFreeSlot", "OutOfSpace" }
              => (fat' = fat /\ flash' = flash /\ last'.calls = << >>))]_vars
\* a create of an existing name, with a content larger than the free space,
\* has failed AlreadyExists on a full table
C13_Witness ==
  /\ last.op = "create" /\ last.result = "AlreadyExists"
  /\ ValidSlots = Slots
  /\ Len(last.data) = getFlashSize(flash)

\* the valid entries whose stored name is name, and the first of them
Holders(name) == { i \in ValidSlots : CStr(fat.files[i].name) = name }
FirstHolder(name) == CHOOSE i \in Holders(name) : \A j \in Holders(name) : i <= j
ReadSize(i, buffer_size) == Min(Val(fat.files[i].size), buffer_size)
ReadAddress(i) == Val(fat.files[i].start_block) * QSPI_FS_BLOCK_SIZE
\* what a read of name has to deliver, but for the value returned
ReadTransfers ==
  IF Holders(last.name) = { }
    THEN last.result = "NotFound" /\ last.out = << >> /\ last.calls = << >>
  ELSE LET i == FirstHolder(last.name)
           n == ReadSize(i, last.buffer_size)
       IN  /\ last.result = "Ok"
           /\ last.calls = << Call("read", ReadAddress(i), n, TRUE) >>
           /\ last.out = [k \in 1..n |-> flash.data[ReadAddress(i) + k - 1]]

\* C14 (read) as stated: on a mounted filesystem a read fails NotFound when no
\* valid entry has the name; otherwise it transfers min(entry.size,
\* buffer_size) bytes from start_block * block_size and the value it returns
\* is the count transferred.
C14_ReadReturnsCount ==
  (fs_initialized /\ last.op = "read") =>
    /\ ReadTransfers
    /\ Holders(last.name) # { } => (IF last.ret THEN 1 ELSE 0) = Len(last.out)

\* C14 (read) as amended: on a mounted filesystem a read fails NotFound
\* (returns false) when no valid entry has the name, a deleted entry never
\* matching; otherwise it transfers min(entry.size, buffer_size) bytes from
\* start_block * block_size and returns true, not a count.
C14_Read ==
  (fs_initialized /\ last.op = "read") =>
    /\ ReadTransfers
    /\ last.ret = (Holders(last.name) # { })
\* a read into a buffer larger than the file has delivered the whole file,
\* of more than one byte, while a deleted entry is in the table
C14_Witness ==
  /\ last.op = "read" /\ last.result = "Ok"
  /\ Len(last.out) > 1 /\ last.buffer_size > Len(last.out)
  /\ \E i \in Slots : i \notin ValidSlots /\ fat.files[i].name # << >>

\* C15 (delete): on a mounted filesystem a delete of a name no valid entry has
\* fails NotFound, changes neither the table in memory nor the flash and
\* issues no device call; a delete of a name a valid entry has lowers
\* used_blocks by the entry's block_count, marks the slot not valid and saves
\* the table, after which the name does not exist.
C15_Delete ==
  [][(fs_initialized /\ last'.op = "delete")
     => IF Holders(last'.name) = { }
          THEN /\ last'.result = "NotFound"
               /\ fat' = fat /\ flash' = flash /\ last'.calls = << >>
        ELSE LET i == FirstHolder(last'.name)
             IN  /\ last'.result = "Ok"
                 /\ fat'.used_blocks = U32Sub(fat.used_blocks, fat.files[i].block_count)
                 /\ fat'.files[i].valid # VALID
                 /\ flash'.at = fat'
                 /\ ~fileExists(fat', last'.name)]_vars

\* C18 (per-file lifecycle): over the create and delete calls after a format,
\* a name exists after a call exactly if the call created it, or it existed
\* before and the call did not delete it; a create of a name that exists and
\* a delete of a name that does not are rejected.
C18_Lifecycle ==
  [][(fs_initialized /\ last'.op \in { "create", "delete" })
     => (/\ \A n \in AnyNames :
              fileExists(fat', n) =
                IF n = last'.name /\ last'.result = "Ok" THEN last'.op = "create"
                ELSE fileExists(fat, n)
         /\ (last'.op = "create" /\ fileExists(fat, last'.name)) => last'.result # "Ok"
         /\ (last'.op = "delete" /\ ~fileExists(fat, last'.name)) => last'.result # "Ok")]_vars

\* C19 (name uniqueness): once the table is formatted, whatever the lengths of
\* the names given to create, no two valid entries hold the same stored name.
C19_UniqueNames ==
  Formatted =>
    \A i \in ValidSlots : \A j \in ValidSlots \ { i } :
      CStr(fat.files[i].name) # CStr(fat.files[j].name)

\* C16 (first-fit allocation): a block is free when it is not block 0 and lies
\* in the range of no valid entry (the range of a deleted entry counts as
\* free).  For every formatted table the program reaches and every count from
\* 1 to total_blocks, findFreeBlocks returns the smallest s >= 1 such that the
\* blocks s .. s + count - 1 are free and below min(total_blocks,
\* max_trackable), and 0 exactly when there is no such s.
FreeBlock(k) == k # 0 /\ \A i \in ValidSlots : k \notin Blocks(i)
RunLimit == Min(Val(fat.total_blocks), max_trackable)
FreeRuns(count) ==
  { s \in 1..(RunLimit - 1) : \A k \in s..(s + count - 1) : k < RunLimit /\ FreeBlock(k) }
C16_FirstFit ==
  Formatted =>
    \A count \in 1..Val(fat.total_blocks) :
      findFreeBlocks(fat, U32(count)) =
        IF FreeRuns(count) = { } THEN 0
        ELSE CHOOSE s \in FreeRuns(count) : \A t \in FreeRuns(count) : s <= t
\* free blocks lie on both sides of a file's block, and a deleted entry's
\* range is among them
C16_Witness ==
  /\ Formatted
  /\ FreeBlock(1) /\ ~FreeBlock(2) /\ FreeBlock(3) /\ RunLimit > 3
  /\ \E i \in Slots : i \notin ValidSlots /\ fat.files[i].name # << >> /\ 1 \in Blocks(i)

\* the valid files: name, start_block and block_count of each
Live == { << CStr(fat.files[i].name), Val(fat.files[i].start_block),
             Val(fat.files[i].block_count) >> : i \in ValidSlots }

\* C17 (end-to-end scenario): 5000, 100 and 8200 bytes take 2, 1 and 3 blocks
\* of 4096 bytes and 1 MiB holds 256 of them; a format gives total_blocks 256
\* and used_blocks 1; on the empty table create x gives x blocks 1-2 and
\* used_blocks 3; then create y gives y block 3 and used_blocks 4; then
\* delete x leaves y alone with used_blocks 2; then create z gives z blocks
\* 4-6, apart from y's, and used_blocks 5.
C17_Scenario ==
  [][/\ BlocksNeededAt(U32(5000), RealBlockSize) = U32(2)
     /\ BlocksNeededAt(U32(100), RealBlockSize) = U32(1)
     /\ BlocksNeededAt(U32(8200), RealBlockSize) = U32(3)
     /\ last'.op = "format"
          => (/\ fat'.total_blocks = U32(256) /\ fat'.used_blocks = U32(1)
              /\ Live' = { })
     /\ (fs_initialized /\ Live = { } /\ last'.op = "create" /\ last'.name = FileX)
          => (/\ last'.result = "Ok"
              /\ Live' = { << FileX, 1, 2 >> } /\ fat'.used_blocks = U32(3))
     /\ (Live = { << FileX, 1, 2 >> } /\ last'.op = "create" /\ last'.name = FileY)
          => (/\ last'.result = "Ok"
              /\ Live' = { << FileX, 1, 2 >>, << FileY, 3, 1 >> }
              /\ fat'.used_blocks = U32(4))
     /\ (/\ Live = { << FileX, 1, 2 >>, << FileY, 3, 1 >> }
         /\ last'.op = "delete" /\ last'.name = FileX)
          => (/\ last'.result = "Ok"
              /\ Live' = { << FileY, 3, 1 >> } /\ fat'.used_blocks = U32(2))
     /\ (Live = { << FileY, 3, 1 >> } /\ last'.op = "create" /\ last'.name = FileZ)
          => (/\ last'.result = "Ok"
              /\ Live' = { << FileY, 3, 1 >>, << FileZ, 4, 3 >> }
              /\ fat'.used_blocks = U32(5))]_vars
\* the create of z has ended the scenario
C17_Witness ==
  /\ last.op = "create" /\ last.name = FileZ /\ last.result = "Ok"
  /\ Live = { << FileY, 3, 1 >>, << FileZ, 4, 3 >> }
  /\ fat.used_blocks = U32(5)
  /\ ~fileExists(fat, FileX)

\* C20 (format): a format on a device of S bytes that carries out every call
\* leaves the table with the magic and the version set, total_blocks =
\* floor(S / block_size), used_blocks = 1 and no valid slot, saves it and
\* leaves the filesystem mounted; a load right after it succeeds with the same
\* table, no file is listed and every name is absent.
C20_Format ==
  [][last'.op = "format"
     => (/\ last'.result = "Ok"
         /\ fat'.magic = U32(QSPI_FS_MAGIC) /\ fat'.version = U32(1)
         /\ fat'.total_blocks = U32((flash.sectors * flash.sectorBlocks * BlockBytes)
                                      \div QSPI_FS_BLOCK_SIZE)
         /\ fat'.used_blocks = U32(1)
         /\ \A i \in Slots : fat'.files[i].valid # VALID
         /\ flash'.at = fat'
         /\ fs_initialized'
         /\ \A o \in loadFAT(fat', flash', 0) : o.result = "Ok" /\ o.fat = fat'
         /\ getFileCount(fat', fs_initialized') = 0
         /\ \A n \in Names : ~fileExists(fat', n))]_vars
\* a format has emptied a table that held a file, whose bytes are still in
\* the data blocks
C20_Witness ==
  /\ last.op = "format" /\ last.result = "Ok"
  /\ ValidSlots = { }
  /\ \E a \in DOMAIN flash.data : flash.data[a] # 255

\* the addresses of the erases a create issued before its data write, in order
RECURSIVE DataErases(_)
DataErases(calls) ==
  IF calls = << >> \/ Head(calls).call # "erase" THEN << >>
  ELSE << Head(calls).addr >> \o DataErases(Tail(calls))
\* the sectors that overlap the blocks start .. start + n - 1
SectorsOfRun(start, n, ss) == { SectorAddr(k, ss) : k \in start..(start + n - 1) }

\* C21 (erase discipline of create): a create that succeeded has erased, before
\* its data write, every sector that overlaps the run it allocated, each
\* exactly once, whatever an earlier create erased and whatever the sector
\* size.
C21_EraseOncePerCall ==
  (last.op = "create" /\ last.result = "Ok") =>
    LET erases == DataErases(last.calls)
        write == last.calls[Len(erases) + 1]
        start == write.addr \div QSPI_FS_BLOCK_SIZE
        n == Val(BlocksNeeded(U32(Len(last.data))))
    IN  /\ { erases[k] : k \in 1..Len(erases) } = SectorsOfRun(start, n, sector_size)
        /\ \A j, k \in 1..Len(erases) : j # k => erases[j] # erases[k]

\* the blocks a device call touches (the table record, written at address 0,
\* lies within block 0: sizeof(fat) <= QSPI_FS_BLOCK_SIZE in the program)
CallBlocks(c) ==
  IF c.call = "write" /\ c.addr = 0 THEN { 0 }
  ELSE (c.addr \div QSPI_FS_BLOCK_SIZE) .. ((c.addr + c.len - 1) \div QSPI_FS_BLOCK_SIZE)
\* the bytes the flash holds in the blocks of the entry in slot i of table f
BytesOf(f, fl, i) ==
  [a \in { a \in DOMAIN fl.data :
             /\ a >= Val(f.files[i].start_block) * QSPI_FS_BLOCK_SIZE
             /\ a < (Val(f.files[i].start_block) + Val(f.files[i].block_count))
                      * QSPI_FS_BLOCK_SIZE } |-> fl.data[a]]

\* C22 (file data isolation): whatever the sector size, a create or delete
\* leaves the bytes of every other valid file as they were, and none of the
\* erases and writes it issues, for its own run or for the table, touches a
\* block in the range of another valid file.
C22_Isolation ==
  [][last'.op \in { "create", "delete" }
     => \A i \in ValidSlots :
          (fat'.files[i] = fat.files[i] /\ CStr(fat.files[i].name) # last'.name)
            => /\ BytesOf(fat, flash', i) = BytesOf(fat, flash, i)
               /\ \A k \in 1..Len(last'.calls) :
                    last'.calls[k].call \in { "erase", "write" }
                      => CallBlocks(last'.calls[k]) \cap Blocks(i) = { }]_vars

\* C23 (every mutation is persisted): after a format, create or delete that
\* succeeded, the record at address 0 is the table in memory, field by field,
\* with the magic and a checksum equal to the computed one, and a load of it
\* succeeds with that table; the save ends the call with the erase of the
\* table's sector followed by the write of the record, and no call writes the
\* record without having erased the sector just before.
C23_Persisted ==
  [][last'.op \in { "format", "create", "delete" }
     => /\ last'.result = "Ok"
          => (/\ flash'.at = fat'
              /\ fat'.magic = U32(QSPI_FS_MAGIC)
              /\ fat'.checksum = calculateChecksum(fat')
              /\ \A o \in loadFAT(ZeroFAT, flash', 0) : o.result = "Ok" /\ o.fat = fat'
              /\ Len(last'.calls) >= 2
              /\ SubSeq(last'.calls, Len(last'.calls) - 1, Len(last'.calls))
                   = << Call("erase", 0, sector_size', TRUE),
                        Call("write", 0, SizeofFAT, TRUE) >>)
        /\ \A k \in 1..Len(last'.calls) :
             (last'.calls[k].call = "write" /\ last'.calls[k].addr = 0)
               => (k > 1 /\ last'.calls[k - 1] = Call("erase", 0, sector_size', TRUE))]_vars
\* a create has succeeded whose erase loop had erased the sector of the table
\* before the save wrote the table again
C23_Witness ==
  /\ last.op = "create" /\ last.result = "Ok"
  /\ Len(last.calls) = 4 /\ last.calls[1] = Call("erase", 0, sector_size, TRUE)
  /\ flash.at = fat /\ ValidSlots # { }

\* C24 (failed mutations leave the table in memory alone): a create or delete
\* that failed, for whatever reason, a device failure of the final save of the
\* table included, leaves the table in memory as it was before the call; the
\* name of a failed create of a new name does not exist afterwards and the
\* name of a failed delete still does.
C24_FailedMutationKeepsTable ==
  [][(last'.op \in { "create", "delete" } /\ last'.result # "Ok")
     => (/\ fat' = fat
         /\ \A n \in Names : fileExists(fat', n) = fileExists(fat, n))]_vars

\* C25 (trackable bound): on a device with more blocks than max_trackable,
\* the range of every valid entry lies in 1 .. min(total_blocks,
\* max_trackable) - 1; findFreeBlocks returns, for every count, 0 or the start
\* of a run that ends below that bound, and 0 for a count above max_trackable
\* although as many blocks are free; a create that needs more than
\* max_trackable blocks fails.
C25_TrackableBound ==
  Formatted =>
    /\ \A i \in ValidSlots : \A k \in Blocks(i) : 1 <= k /\ k < RunLimit
    /\ \A count \in TrackCounts \cup { max_trackable } :
         LET s == findFreeBlocks(fat, U32(count))
         IN  /\ s = 0 \/ (1 <= s /\ s + count - 1 < RunLimit)
             /\ count > max_trackable => s = 0
    /\ (last.op = "create" /\ Val(BlocksNeeded(U32(Len(last.data)))) > max_trackable)
         => last.result \in { "AlreadyExists", "OutOfSpace" }
\* a create that needs one block more than the bound has failed on an empty
\* table of a device that has as many data blocks
C25_Witness ==
  /\ last.op = "create" /\ last.result = "OutOfSpace"
  /\ Val(BlocksNeeded(U32(Len(last.data)))) = max_trackable + 1
  /\ ValidSlots = { } /\ Formatted
  /\ Val(fat.total_blocks) - 1 >= max_trackable + 1

\* C26 (bounded bitmap of the class-based variant): on a device with more
\* blocks than BITMAP_SIZE, a create never reads the array of used blocks at
\* an index of BITMAP_SIZE or more, the range of every valid entry lies below
\* BITMAP_SIZE, and no two valid entries share a block.
C26_BoundedBitmap ==
  /\ last.op = "create" => last.bitmap < BITMAP_SIZE
  /\ Formatted =>
       /\ \A i \in ValidSlots : \A k \in Blocks(i) : k < BITMAP_SIZE
       /\ \A i \in ValidSlots : \A j \in ValidSlots \ { i } : Blocks(i) \cap Blocks(j) = { }

\* C27 (zero-block request): a create of an empty content leaves used_blocks
\* and the set of used blocks as they were and gives no valid entry the
\* start_block 0; when it succeeds its entry has block_count 0 and a
\* start_block of 1 or more, and it issues no erase before the data write:
\* its device calls are the write of no byte and the save of the table.
C27_ZeroBlocks ==
  [][(last'.op = "create" /\ Len(last'.data) = 0)
     => (/\ fat'.used_blocks = fat.used_blocks
         /\ \A k \in 0..(getFlashSize(flash) \div QSPI_FS_BLOCK_SIZE) :
              UsedBlock(fat', k) = UsedBlock(fat, k)
         /\ \A i \in Slots :
              (fat'.files[i].valid = VALID /\ fat.files[i].valid # VALID)
                => (/\ fat'.files[i].start_block # ZERO32
                    /\ fat'.files[i].block_count = ZERO32)
         /\ DataErases(last'.calls) = << >>
         /\ last'.result = "Ok"
              => \E s \in 1..(getFlashSize(flash) \div QSPI_FS_BLOCK_SIZE) :
                   last'.calls = << Call("write", s * QSPI_FS_BLOCK_SIZE, 0, TRUE),
                                    Call("erase", 0, sector_size, TRUE),
                                    Call("write", 0, SizeofFAT, TRUE) >>)]_vars
\* an empty file has been created next to a file that holds block 1: its
\* entry starts at block 2 and has no block
C27_Witness ==
  /\ last.op = "create" /\ last.result = "Ok" /\ Len(last.data) = 0
  /\ \E i \in ValidSlots : fat.files[i].block_count = U32(1) /\ fat.files[i].start_block = U32(1)
  /\ \E i \in ValidSlots : /\ CStr(fat.files[i].name) = last.name
                           /\ fat.files[i].start_block = U32(2)
                           /\ fat.files[i].block_count = ZERO32

\* C28 (recovery does not trust used_blocks): after a mount that succeeded,
\* used_blocks in memory is 1 plus the block_count of the valid entries of the
\* loaded table, whatever used_blocks the persisted record carried with its
\* magic and a matching checksum.
C28_RecomputedOnLoad ==
  (last.op = "begin" /\ last.result = "Ok") => fat.used_blocks = U32(1 + SumBlockCounts(0))

\* ceil(size / QSPI_FS_BLOCK_SIZE), computed without a sum that can pass 2^32
CeilBlocks(size) ==
  IF U32Rem(size, QSPI_FS_BLOCK_SIZE) = 0 THEN U32Div(size, QSPI_FS_BLOCK_SIZE)
  ELSE U32Add(U32Div(size, QSPI_FS_BLOCK_SIZE), U32(1))

\* C29 (block count is the ceiling of the size): every valid entry of the
\* table has block_count = ceil(size / block_size), so that size is at most
\* block_count * block_size, for every size of 32 bits, the sizes within
\* block_size - 1 of 2^32 included.
C29_BlockCount ==
  \A i \in ValidSlots : fat.files[i].block_count = CeilBlocks(fat.files[i].size)

\* the failure a call reports when its device call of that kind fails
FailureOf(call) ==
  CASE call = "read" -> "DeviceReadFailed"
    [] call = "erase" -> "DeviceEraseFailed"
    [] call = "write" -> "DeviceWriteFailed"

\* C30 (no retry, immediate propagation): in every mount, format, create,
\* read or delete, a device call that failed is the last device call of the
\* operation, and the operation then fails with the failure of that call's
\* kind; an operation reports a device failure only when its last device call
\* failed.  So a save issues no write after a failed erase, and a create
\* neither writes data after a failed erase nor saves the table after a failed
\* data write.
C30_NoRetry ==
  LET n == Len(last.calls)
  IN  /\ \A k \in 1..n : ~last.calls[k].ok => k = n
      /\ (n > 0 /\ ~last.calls[n].ok) => last.result = FailureOf(last.calls[n].call)
      /\ last.result \in { "DeviceReadFailed", "DeviceEraseFailed", "DeviceWriteFailed" }
           => (n > 0 /\ ~last.calls[n].ok)
\* a create has ended at its failed data write, after the erases of a run of
\* two blocks
C30_Witness ==
  /\ last.op = "create" /\ last.result = "DeviceWriteFailed"
  /\ Len(last.calls) >= 2
  /\ last.calls[Len(last.calls)].call = "write" /\ last.calls[Len(last.calls)].addr # 0
  /\ Len(last.data) > BlockBytes

\* the last call ended in a save whose erase was carried out and whose write
\* of the record failed
SaveWriteFailed ==
  /\ last.op \in { "format", "create", "delete" }
  /\ Len(last.calls) >= 2
  /\ last.calls[Len(last.calls) - 1] = Call("erase", 0, sector_size, TRUE)
  /\ last.calls[Len(last.calls)] = Call("write", 0, SizeofFAT, FALSE)
\* a load of the record the device holds succeeds
Loadable(fl) == \E o \in loadFAT(ZeroFAT, fl, 0) : o.result = "Ok"

C32_DeleteFrame ==
  [][(last'.op = "delete" /\ last'.result = "Ok")
     => /\ \E t \in ValidSlots :
             /\ CStr(fat.files[t].name) = last'.name
             /\ fat'.files = [fat.files EXCEPT ![t].valid = 0]
        /\ fat'.magic = fat.magic /\ fat'.version = fat.version
        /\ fat'.total_blocks = fat.total_blocks
        /\ \A k \in 1..Len(last'.calls) :
             last'.calls[k].call \in { "erase", "write" }
               => CallBlocks(last'.calls[k]) \cap (1..(Val(fat.total_blocks) - 1)) = { }
        /\ flash'.data = flash.data]_vars


\* the valid slot with k valid slots below it
NthValid(k) == CHOOSE i \in ValidSlots : Cardinality({ j \in ValidSlots : j < i }) = k
Queries == { "exists", "size", "list" }

\* C33 (pure queries): exists, size and list leave the table in memory and the
\* device as they were and issue no device call; exists tells whether a valid
\* entry has the name and size gives that entry's size; on a mounted filesystem
\* list prints one line for each valid entry and no other, in ascending order
\* of the slot index.
C33_PureQueries ==
  /\ [][last'.op \in Queries
         => /\ fat' = fat /\ flash' = flash /\ fs_initialized' = fs_initialized
            /\ last'.calls = << >>]_vars
  /\ [](last.op = "exists"
         => (last.ret <=> \E i \in ValidSlots : CStr(fat.files[i].name) = last.name))
  /\ [](last.op = "size"
         => \/ \E i \in ValidSlots : /\ CStr(fat.files[i].name) = last.name
                                     /\ last.size = fat.files[i].size
            \/ /\ last.size = ZERO32
               /\ \A i \in ValidSlots : CStr(fat.files[i].name) # last.name)
  /\ []((last.op = "list" /\ fs_initialized)
         => /\ Len(last.lines) = Cardinality(ValidSlots)
            /\ \A k \in 1..Len(last.lines) :
                 /\ last.lines[k].name = CStr(fat.files[NthValid(k - 1)].name)
                 /\ last.lines[k].size = fat.files[NthValid(k - 1)].size)
\* a list of two files where the file of slot 0 was placed after that of slot 1
C33_Witness ==
  /\ last.op = "list" /\ Len(last.lines) = 2
  /\ fat.files[0].valid = VALID /\ fat.files[1].valid = VALID
  /\ U32Lt(fat.files[1].start_block, fat.files[0].start_block)
  /\ last.lines[1].name = CStr(fat.files[0].name)
  /\ last.lines[1].name # last.lines[2].name


\* C34 (queries while not mounted): while fs_initialized is false, exists
\* returns false and size returns 0 for every name, whatever a failed load has
\* read into the table.
C34_UnmountedQueries ==
  /\ (~fs_initialized /\ last.op = "exists") => ~last.ret
  /\ (~fs_initialized /\ last.op = "size") => last.size = ZERO32


\* the sector at address addr holds a programmed byte: it has been erased and
\* written since the format
HasProgrammed(fl, addr) ==
  \E a \in DOMAIN fl.data : addr <= a /\ a < addr + getSectorSize(fl) /\ fl.data[a] # 255
\* the sectors of the scanned range that lie above the blocks of the client's
\* file: no call has erased them
SpareSectors(f, fl) ==
  { s \in 1..(fl.sectors - 1) : /\ s * fl.sectorBlocks > CycleBlocks
                                /\ (s + 1) * fl.sectorBlocks <= ScanLimit(f) }

\* C36 (wear leveling): a create does not erase a data sector that has been
\* erased and written since the format while a sector of the allocatable range
\* has never been erased: a client that creates and deletes one file again and
\* again does not keep erasing the same sectors.
C36_WearLeveled ==
  [][last'.op = "create"
     => \A k \in 1..Len(DataErases(last'.calls)) :
          HasProgrammed(flash, DataErases(last'.calls)[k]) => SpareSectors(fat, flash) = { }]_vars


\* both createFile calls of the two threads have returned true
BothReturnedOk == \A t \in Threads : tasks[t].pc = "done" /\ tasks[t].result = "Ok"

\* C35 (no concurrency protection): two createFile calls that overlap can take
\* the same free slot or the same free run.  When both have returned true with
\* the same slot, one of the two files is not in the table, although its create
\* reported success, and used_blocks is not 1 plus the blocks of the valid
\* entries; two calls that returned true with the same run returned with the
\* same slot.
C35_OverlapCorrupts ==
  /\ (BothReturnedOk /\ tasks[1].slot = tasks[2].slot)
       => /\ fileExists(fat, NameA) # fileExists(fat, NameB)
          /\ fat.used_blocks # U32(1 + SumBlockCounts(0))
  /\ (BothReturnedOk /\ tasks[1].start_block = tasks[2].start_block)
       => tasks[1].slot = tasks[2].slot
\* both calls returned true with slot 0 and the run at block 1: the table holds
\* one of the files and used_blocks counts both
C35_Witness ==
  /\ BothReturnedOk
  /\ tasks[1].slot = 0 /\ tasks[2].slot = 0
  /\ tasks[1].start_block = 1 /\ tasks[2].start_block = 1
  /\ ~fileExists(fat, NameA) /\ fileExists(fat, NameB)
  /\ fat.used_blocks = U32(4) /\ SumBlockCounts(0) = 2


\* address a lies in partition id: its distance from the start is below the size
InPartition(id, a) ==
  U32Lt(U32Sub(a, part.partitions[id].start_address), part.partitions[id].size)

\* C37 (partition boundary protection): a writePartition, readPartition or
\* erasePartitionRegion that did not fail has made device calls only on
\* addresses inside the partition, and the erase has covered every byte of the
\* region asked for, for every 32-bit offset.
C37_InsidePartition ==
  (part.call.op \in { "write", "read", "eraseRegion" } /\ part.call.ret)
    => /\ \A k \in 1..Len(part.call.calls) :
            \A a \in Touched(part.call.calls[k].addr, part.call.calls[k].len) :
              InPartition(part.call.id, a)
       /\ part.call.op = "eraseRegion"
            => Touched(U32Add(part.partitions[part.call.id].start_address, part.call.offset),
                       part.call.n)
                 \subseteq Touched(part.call.calls[1].addr, part.call.calls[1].len)

\* the defined partitions
Defined == { i \in 0..(part.partition_count - 1) : part.partitions[i].size # ZERO32 }
\* partition i lies inside the flash: start + size does not pass the flash size
InsideFlash(i) ==
  /\ ~U32Lt(part.flash_size, part.partitions[i].start_address)
  /\ ~U32Lt(U32Sub(part.flash_size, part.partitions[i].start_address), part.partitions[i].size)

\* C38 (partitions never overlap): the defined partitions lie inside the flash
\* and no two of them share an address, and a definePartition that returned
\* false has left the table as it was.
C38_NoOverlap ==
  /\ [](\A i \in Defined :
          /\ InsideFlash(i)
          /\ \A j \in Defined \ { i } : ~InPartition(j, part.partitions[i].start_address))
  /\ [][(part'.call.op = "define" /\ ~part'.call.ret)
         => /\ part'.partitions = part.partitions
            /\ part'.partition_count = part.partition_count]_vars

====
